---------------------------- MODULE Spec2Model ----------------------------
(*************************************************************************)
(* Model of rusty-games: a swarm of exploration robots driven by a       *)
(* central station over a grid map.                                      *)
(*                                                                       *)
(*   src/src/map.rs      Map, Cell, CellType                             *)
(*   src/src/robot.rs    Robot (state machine, scoring, A*, unstuck)     *)
(*   src/src/station.rs  Station (ledger, known map, provisioning)       *)
(*   src/src/main.rs     the tick loop                                   *)
(*                                                                       *)
(* Specifications:                                                       *)
(*   PathSpec      one run of Robot::find_path, one loop iteration a step*)
(*   PathLiveSpec  PathSpec under fairness of the loop iteration         *)
(*   OpSpec        the operations on one robot, in any order             *)
(*   StationSpec   the operations of the station, in any order           *)
(*   Spec          the tick loop of main                                 *)
(*   ProvisionSpec the tick loop around the cap on the number of robots  *)
(*   UpdateSpec    single steps and updates of one robot                 *)
(*   StuckSpec     stuck recovery of one robot                           *)
(*   ReturnSpec    the tick loop without end, under fairness of the loop *)
(*   LedgerSpec    the tick loop with cargo, deposits and robot creation *)
(*************************************************************************)
EXTENDS Integers, Sequences, FiniteSets, TLC

VARIABLES
    map,        \* Map: [width, height, cells]
    station,    \* Station without its robots: position, ledger, known_map
    robots,     \* Station::robots, a sequence of Robot records
    phase,      \* position of the running code (which loop of main, or which API)
    idx,        \* loop index of the running loop of main
    ticks,      \* number of iterations of main's loop so far
    ev,         \* what the last operation did and returned
    search,     \* the locals of a run of find_path
    replay      \* the locals of a second run of find_path on the same inputs

vars == <<map, station, robots, phase, idx, ticks, ev, search, replay>>

-----------------------------------------------------------------------------
(* Bounds of the model *)

MapW == 3
MapH == 3
MaxObstacles == 2

(* Stand-ins for usize::MAX and u32::MAX: TLC's integers are 32-bit, and the
   code uses these values only as "out of the map" and "no score yet". *)
UsizeMax == 2147483647
U32Max == 2147483647

INITIAL_ROBOT_ENERGY == 100

-----------------------------------------------------------------------------
(* Arithmetic of the unsigned integers *)

SaturatingSub(a, b) == IF a >= b THEN a - b ELSE 0

WrappingSub1(a) == IF a = 0 THEN UsizeMax ELSE a - 1

Abs(i) == IF i < 0 THEN -i ELSE i

Signum(i) == IF i > 0 THEN 1 ELSE IF i < 0 THEN -1 ELSE 0

\* (i as usize) for an i32 i: a negative i wraps to a huge value
AsUsize(i) == IF i < 0 THEN UsizeMax + (1 + i) ELSE i

Clamp(i, lo, hi) == IF i < lo THEN lo ELSE IF i > hi THEN hi ELSE i

-----------------------------------------------------------------------------
(* map.rs *)

Empty == [kind |-> "Empty", amount |-> 0]
Obstacle == [kind |-> "Obstacle", amount |-> 0]
Energy(a) == [kind |-> "Energy", amount |-> a]
Mineral(a) == [kind |-> "Mineral", amount |-> a]
SciencePoint == [kind |-> "SciencePoint", amount |-> 0]

NewCell(ct) == [cell_type |-> ct, explored |-> FALSE]

Positions(w, h) == (0 .. w - 1) \X (0 .. h - 1)

IsValidPosition(m, x, y) == x < m.width /\ y < m.height

\* get_cell is Some exactly when HasCell; GetCell is the cell it holds
HasCell(m, x, y) == IsValidPosition(m, x, y)

GetCell(m, x, y) == m.cells[<<x, y>>]

-----------------------------------------------------------------------------
(* robot.rs: move legality *)

\* a bug: a robot without energy blocks the cell it lies on
IsValidMoveAroundAnyRobot(x, y, m, other_robots) ==
    IF HasCell(m, x, y)
    THEN /\ GetCell(m, x, y).cell_type.kind # "Obstacle"
         /\ ~ \E k \in 1 .. Len(other_robots) :
                other_robots[k].x = x /\ other_robots[k].y = y
    ELSE FALSE

\* a bug: the cell type is not looked at
IsValidMoveOntoObstacles(x, y, m, other_robots) ==
    IF HasCell(m, x, y)
    THEN ~ \E k \in 1 .. Len(other_robots) :
             /\ other_robots[k].x = x
             /\ other_robots[k].y = y
             /\ other_robots[k].energy > 0
    ELSE FALSE

IsValidMove(x, y, m, other_robots) ==
    IF HasCell(m, x, y)
    THEN /\ GetCell(m, x, y).cell_type.kind # "Obstacle"
         /\ ~ \E k \in 1 .. Len(other_robots) :
                /\ other_robots[k].x = x
                /\ other_robots[k].y = y
                /\ other_robots[k].energy > 0
    ELSE FALSE

-----------------------------------------------------------------------------
(* robot.rs: A* *)

NewPathNode(x, y, g_cost, h_cost) ==
    [x |-> x, y |-> y, g_cost |-> g_cost, h_cost |-> h_cost, f_cost |-> g_cost + h_cost]

\* Ordering as -1 (Less), 0 (Equal), 1 (Greater)
IntCmp(a, b) == IF a < b THEN -1 ELSE IF a > b THEN 1 ELSE 0

\* a bug: the f-comparison alone, no tie-break on h
PathNodeCmpNoTieBreak(a, b) == IntCmp(b.f_cost, a.f_cost)

\* a bug: the comparison not reversed, which makes the heap a max-heap on f
PathNodeCmpNotReversed(a, b) ==
    IF IntCmp(a.f_cost, b.f_cost) # 0
    THEN IntCmp(a.f_cost, b.f_cost)
    ELSE IntCmp(a.h_cost, b.h_cost)

PathNodeCmp(a, b) ==
    IF IntCmp(b.f_cost, a.f_cost) # 0
    THEN IntCmp(b.f_cost, a.f_cost)
    ELSE IntCmp(b.h_cost, a.h_cost)

PathNodeLe(a, b) == PathNodeCmp(a, b) <= 0

(* std::collections::BinaryHeap over a Vec; index i of the Vec is data[i + 1] *)
RECURSIVE HeapSiftUp(_, _, _, _)
HeapSiftUp(data, elt, start, pos) ==
    IF pos > start
    THEN LET parent == (pos - 1) \div 2
         IN  IF PathNodeLe(elt, data[parent + 1])
             THEN [data EXCEPT ![pos + 1] = elt]
             ELSE HeapSiftUp([data EXCEPT ![pos + 1] = data[parent + 1]],
                             elt, start, parent)
    ELSE [data EXCEPT ![pos + 1] = elt]

HeapPush(data, item) == HeapSiftUp(Append(data, item), item, 0, Len(data))

RECURSIVE HeapSiftDownToBottom(_, _, _)
HeapSiftDownToBottom(data, elt, pos) ==
    LET end == Len(data)
        child == 2 * pos + 1
    IN  IF child <= SaturatingSub(end, 2)
        THEN LET c == IF PathNodeLe(data[child + 1], data[child + 2])
                      THEN child + 1 ELSE child
             IN  HeapSiftDownToBottom([data EXCEPT ![pos + 1] = data[c + 1]], elt, c)
        ELSE IF child = end - 1
             THEN HeapSiftUp([data EXCEPT ![pos + 1] = data[child + 1]], elt, 0, child)
             ELSE HeapSiftUp(data, elt, 0, pos)

\* a bug: a queue whose order among greatest elements is left open
HeapPopAnyGreatest(data) ==
    { [item |-> data[k],
       rest |-> [j \in 1 .. Len(data) - 1 |-> IF j < k THEN data[j] ELSE data[j + 1]]] :
      k \in { i \in 1 .. Len(data) :
                \A j \in 1 .. Len(data) : PathNodeLe(data[j], data[i]) } }

\* The outcomes of pop() on a non-empty heap: the code's heap has exactly one
HeapPop(data) ==
    LET last == data[Len(data)]
        init == SubSeq(data, 1, Len(data) - 1)
    IN  IF init = <<>>
        THEN { [item |-> last, rest |-> <<>>] }
        ELSE { [item |-> init[1], rest |-> HeapSiftDownToBottom(init, last, 0)] }

Heuristic(x1, y1, x2, y2) == Abs(x1 - x2) + Abs(y1 - y2)

RECURSIVE ReconstructWalk(_, _, _)
ReconstructWalk(came_from, current, path) ==
    IF current \in DOMAIN came_from
    THEN ReconstructWalk(came_from, came_from[current], <<came_from[current]>> \o path)
    ELSE path

\* a bug: the path is not reversed, it runs from the goal to the start
RECURSIVE ReconstructPathNotReversed(_, _)
ReconstructPathNotReversed(came_from, current) ==
    IF current \in DOMAIN came_from
    THEN <<current>> \o ReconstructPathNotReversed(came_from, came_from[current])
    ELSE <<current>>

\* path.push(parent) along came_from, then path.reverse()
ReconstructPath(came_from, current) == ReconstructWalk(came_from, current, <<current>>)

EmptyMapping == [p \in {} |-> 0]

GScoreOf(g_score, p) == IF p \in DOMAIN g_score THEN g_score[p] ELSE U32Max

\* the locals of find_path before its loop
FindPathStart(start_x, start_y, goal_x, goal_y) ==
    [goal |-> <<goal_x, goal_y>>,
     open_set |-> HeapPush(<<>>, NewPathNode(start_x, start_y, 0,
                                  Heuristic(start_x, start_y, goal_x, goal_y))),
     came_from |-> EmptyMapping,
     g_score |-> (<<start_x, start_y>> :> 0),
     status |-> "running",
     path |-> <<>>]

\* the body of "for (nx, ny) in neighbors" for one neighbour
RelaxNeighbor(s, current, nx, ny, m, other_robots) ==
    IF nx >= m.width \/ ny >= m.height
    THEN s
    ELSE IF ~ IsValidMove(nx, ny, m, other_robots)
    THEN s
    ELSE LET tentative_g_score == GScoreOf(s.g_score, <<current.x, current.y>>) + 1
             current_g_score == GScoreOf(s.g_score, <<nx, ny>>)
         IN  IF tentative_g_score < current_g_score
             THEN [s EXCEPT
                     !.came_from = (<<nx, ny>> :> <<current.x, current.y>>) @@ @,
                     !.g_score = (<<nx, ny>> :> tentative_g_score) @@ @,
                     !.open_set = HeapPush(@, NewPathNode(nx, ny, tentative_g_score,
                                       Heuristic(nx, ny, s.goal[1], s.goal[2])))]
             ELSE s

\* one iteration of "while let Some(current) = open_set.pop()", the pop given
FindPathIteration(s, popped, m, other_robots) ==
    LET current == popped.item
        s0 == [s EXCEPT !.open_set = popped.rest]
    IN  IF current.x = s.goal[1] /\ current.y = s.goal[2]
        THEN [s0 EXCEPT !.status = "found",
                        !.path = ReconstructPath(s.came_from, <<current.x, current.y>>)]
        ELSE LET s1 == RelaxNeighbor(s0, current, WrappingSub1(current.x), current.y,
                                     m, other_robots)
                 s2 == RelaxNeighbor(s1, current, current.x + 1, current.y,
                                     m, other_robots)
                 s3 == RelaxNeighbor(s2, current, current.x, WrappingSub1(current.y),
                                     m, other_robots)
             IN  RelaxNeighbor(s3, current, current.x, current.y + 1, m, other_robots)

\* the loop's exit with the heap empty: find_path returns None
FindPathExhausted(s) == [s EXCEPT !.status = "none"]

RECURSIVE FindPathLoop(_, _, _)
FindPathLoop(s, m, other_robots) ==
    IF s.status # "running"
    THEN s
    ELSE IF s.open_set = <<>>
    THEN FindPathExhausted(s)
    ELSE FindPathLoop(FindPathIteration(s, CHOOSE p \in HeapPop(s.open_set) : TRUE,
                                        m, other_robots),
                      m, other_robots)

\* find_path: <<>> is None, a non-empty sequence of positions is Some(path)
FindPath(start_x, start_y, goal_x, goal_y, m, other_robots) ==
    FindPathLoop(FindPathStart(start_x, start_y, goal_x, goal_y), m, other_robots).path

-----------------------------------------------------------------------------
(* robot.rs: the Robot record.  An Option is <<>> (None) or <<v>> (Some(v)). *)

RobotTypes == {"Explorer", "EnergyCollector", "MineralCollector", "Scientist"}

RobotStates == {"Exploring", "ReturningToStation", "AtStation"}

NewWithType(x, y, robot_type) ==
    [x |-> x, y |-> y,
     energy |-> INITIAL_ROBOT_ENERGY,
     minerals |-> 0,
     science_points |-> 0,
     pending_exploration_updates |-> <<>>,
     robot_type |-> robot_type,
     state |-> "Exploring",
     target_x |-> <<>>,
     target_y |-> <<>>,
     steps_since_last_find |-> 0]

\* a bug: the copies of the other robots are taken once, before the first
\* update of the tick, and not again for each robot
OtherRobotsOfTickStart(rs, i) ==
    LET copied == IF i = 1 THEN rs ELSE ev.at_start
    IN  SubSeq(copied, 1, i - 1) \o SubSeq(copied, i + 1, Len(copied))

\* the other_robots slice main builds for robot i: all robots but the i-th, in order
OtherRobots(rs, i) == SubSeq(rs, 1, i - 1) \o SubSeq(rs, i + 1, Len(rs))

-----------------------------------------------------------------------------
(* map.rs: the two mutators of the map *)

\* Map::explore: [map, ok]
MapExplore(m, x, y) ==
    IF HasCell(m, x, y)
    THEN [map |-> [m EXCEPT !.cells[<<x, y>>].explored = TRUE], ok |-> TRUE]
    ELSE [map |-> m, ok |-> FALSE]

\* a bug: the resource is handed out and stays in the cell
MapCollectResourceKeepsCell(m, x, y) ==
    IF HasCell(m, x, y)
    THEN LET ct == GetCell(m, x, y).cell_type
         IN  CASE ct.kind = "Energy" -> [map |-> m, result |-> <<Energy(0), ct.amount>>]
               [] ct.kind = "Mineral" -> [map |-> m, result |-> <<Mineral(0), ct.amount>>]
               [] ct.kind = "SciencePoint" -> [map |-> m, result |-> <<SciencePoint, 1>>]
               [] OTHER -> [map |-> m, result |-> <<>>]
    ELSE [map |-> m, result |-> <<>>]

\* a bug: the cell keeps its kind of resource, with nothing left in it
MapCollectResourceLeavesDepleted(m, x, y) ==
    IF HasCell(m, x, y)
    THEN LET ct == GetCell(m, x, y).cell_type
         IN  CASE ct.kind = "Energy" ->
                    [map |-> [m EXCEPT !.cells[<<x, y>>].cell_type = Energy(0)],
                     result |-> <<Energy(0), ct.amount>>]
               [] ct.kind = "Mineral" ->
                    [map |-> [m EXCEPT !.cells[<<x, y>>].cell_type = Mineral(0)],
                     result |-> <<Mineral(0), ct.amount>>]
               [] ct.kind = "SciencePoint" ->
                    [map |-> [m EXCEPT !.cells[<<x, y>>].cell_type = Empty],
                     result |-> <<SciencePoint, 1>>]
               [] OTHER -> [map |-> m, result |-> <<>>]
    ELSE [map |-> m, result |-> <<>>]

\* Map::collect_resource: [map, result], result an Option<(CellType, u32)>
MapCollectResource(m, x, y) ==
    IF HasCell(m, x, y)
    THEN LET ct == GetCell(m, x, y).cell_type
             emptied == [m EXCEPT !.cells[<<x, y>>].cell_type = Empty]
         IN  CASE ct.kind = "Energy" -> [map |-> emptied, result |-> <<Energy(0), ct.amount>>]
               [] ct.kind = "Mineral" -> [map |-> emptied, result |-> <<Mineral(0), ct.amount>>]
               [] ct.kind = "SciencePoint" -> [map |-> emptied, result |-> <<SciencePoint, 1>>]
               [] OTHER -> [map |-> m, result |-> <<>>]
    ELSE [map |-> m, result |-> <<>>]

-----------------------------------------------------------------------------
(* robot.rs: the elementary operations of a robot *)

Directions == <<"North", "East", "South", "West">>

\* get_next_position_from: an Option<(usize, usize)>
GetNextPositionFrom(x, y, direction, m) ==
    CASE direction = "North" -> IF y = 0 THEN <<>> ELSE <<x, y - 1>>
      [] direction = "East" -> IF x >= m.width - 1 THEN <<>> ELSE <<x + 1, y>>
      [] direction = "South" -> IF y >= m.height - 1 THEN <<>> ELSE <<x, y + 1>>
      [] direction = "West" -> IF x = 0 THEN <<>> ELSE <<x - 1, y>>

GetNextPosition(r, direction, m) == GetNextPositionFrom(r.x, r.y, direction, m)

\* a bug: the energy cost of a step subtracted without saturation
MoveInDirectionPlainSub(r, direction, m, other_robots) ==
    LET next == GetNextPositionFrom(r.x, r.y, direction, m)
    IN  IF next # <<>> /\ IsValidMove(next[1], next[2], m, other_robots)
        THEN [robot |-> [r EXCEPT !.x = next[1], !.y = next[2], !.energy = @ - 1],
              ok |-> TRUE]
        ELSE [robot |-> r, ok |-> FALSE]

\* move_in_direction: [robot, ok]
MoveInDirection(r, direction, m, other_robots) ==
    LET next == CASE direction = "North" -> IF r.y = 0 THEN <<>> ELSE <<r.x, r.y - 1>>
                  [] direction = "East" ->
                        IF r.x >= m.width - 1 THEN <<>> ELSE <<r.x + 1, r.y>>
                  [] direction = "South" ->
                        IF r.y >= m.height - 1 THEN <<>> ELSE <<r.x, r.y + 1>>
                  [] direction = "West" -> IF r.x = 0 THEN <<>> ELSE <<r.x - 1, r.y>>
    IN  IF next = <<>>
        THEN [robot |-> r, ok |-> FALSE]
        ELSE IF IsValidMove(next[1], next[2], m, other_robots)
        THEN [robot |-> [r EXCEPT !.x = next[1], !.y = next[2],
                                  !.energy = SaturatingSub(@, 1)],
              ok |-> TRUE]
        ELSE [robot |-> r, ok |-> FALSE]

\* Robot::collect_resource: [robot, map, ok]
CollectResource(r, m) ==
    LET got == MapCollectResource(m, r.x, r.y)
    IN  IF got.result # <<>>
        THEN LET resource_type == got.result[1]
                 amount == got.result[2]
             IN  CASE resource_type.kind = "Energy" ->
                        [robot |-> [r EXCEPT !.energy = @ + amount],
                         map |-> got.map, ok |-> TRUE]
                   [] resource_type.kind = "Mineral" ->
                        [robot |-> [r EXCEPT !.minerals = @ + amount],
                         map |-> got.map, ok |-> TRUE]
                   [] resource_type.kind = "SciencePoint" ->
                        [robot |-> [r EXCEPT !.science_points = @ + amount],
                         map |-> got.map, ok |-> TRUE]
                   [] OTHER -> [robot |-> r, map |-> got.map, ok |-> FALSE]
        ELSE [robot |-> r, map |-> got.map, ok |-> FALSE]

\* a bug: the cell is recorded and not marked as explored
ExploreWithoutMark(r, m) ==
    IF HasCell(m, r.x, r.y)
    THEN [robot |-> [r EXCEPT !.pending_exploration_updates =
                        Append(@, <<<<r.x, r.y>>, GetCell(m, r.x, r.y).cell_type>>)],
          map |-> m, ok |-> TRUE]
    ELSE [robot |-> r, map |-> m, ok |-> FALSE]

\* Robot::explore: [robot, map, ok]
Explore(r, m) ==
    LET marked == MapExplore(m, r.x, r.y)
    IN  IF marked.ok
        THEN [robot |-> IF HasCell(marked.map, r.x, r.y)
                        THEN [r EXCEPT !.pending_exploration_updates =
                                 Append(@, <<<<r.x, r.y>>,
                                          GetCell(marked.map, r.x, r.y).cell_type>>)]
                        ELSE r,
              map |-> marked.map, ok |-> TRUE]
        ELSE [robot |-> r, map |-> marked.map, ok |-> FALSE]

\* a bug: the whole energy is handed over, not the part above the baseline
UnloadPayloadAllEnergy(r) ==
    [robot |-> [r EXCEPT !.energy = 0, !.minerals = 0, !.science_points = 0],
     payload |-> <<r.energy, r.minerals, r.science_points>>]

\* unload_payload: [robot, payload], payload the returned triple
UnloadPayload(r) ==
    LET energy_payload == SaturatingSub(r.energy, INITIAL_ROBOT_ENERGY)
    IN  [robot |-> [r EXCEPT !.energy = SaturatingSub(@, energy_payload),
                             !.minerals = 0,
                             !.science_points = 0],
         payload |-> <<energy_payload, r.minerals, r.science_points>>]

\* get_exploration_updates (std::mem::take): [robot, updates]
GetExplorationUpdates(r) ==
    [robot |-> [r EXCEPT !.pending_exploration_updates = <<>>],
     updates |-> r.pending_exploration_updates]

FoundSomethingAtCurrentPosition(r, m) ==
    IF HasCell(m, r.x, r.y)
    THEN GetCell(m, r.x, r.y).cell_type.kind \in {"Energy", "Mineral", "SciencePoint"}
    ELSE FALSE

-----------------------------------------------------------------------------
(* robot.rs: try_unstuck *)

(* (radius * cos(angle * PI / 8)) as i32 and (radius * sin(angle * PI / 8)) as i32
   in f32 arithmetic, for radius 8 ..= 25 (rows) and angle 0 .. 16 (columns) *)
UnstuckOffsets ==
    <<
       << <<8, 0>>, <<7, 3>>, <<5, 5>>, <<3, 7>>, <<0, 8>>, <<-3, 7>>, <<-5, 5>>, <<-7, 3>>, <<-8, 0>>, <<-7, -3>>, <<-5, -5>>, <<-3, -7>>, <<0, -8>>, <<3, -7>>, <<5, -5>>, <<7, -3>> >>,
       << <<9, 0>>, <<8, 3>>, <<6, 6>>, <<3, 8>>, <<0, 9>>, <<-3, 8>>, <<-6, 6>>, <<-8, 3>>, <<-9, 0>>, <<-8, -3>>, <<-6, -6>>, <<-3, -8>>, <<0, -9>>, <<3, -8>>, <<6, -6>>, <<8, -3>> >>,
       << <<10, 0>>, <<9, 3>>, <<7, 7>>, <<3, 9>>, <<0, 10>>, <<-3, 9>>, <<-7, 7>>, <<-9, 3>>, <<-10, 0>>, <<-9, -3>>, <<-7, -7>>, <<-3, -9>>, <<0, -10>>, <<3, -9>>, <<7, -7>>, <<9, -3>> >>,
       << <<11, 0>>, <<10, 4>>, <<7, 7>>, <<4, 10>>, <<0, 11>>, <<-4, 10>>, <<-7, 7>>, <<-10, 4>>, <<-11, 0>>, <<-10, -4>>, <<-7, -7>>, <<-4, -10>>, <<0, -11>>, <<4, -10>>, <<7, -7>>, <<10, -4>> >>,
       << <<12, 0>>, <<11, 4>>, <<8, 8>>, <<4, 11>>, <<0, 12>>, <<-4, 11>>, <<-8, 8>>, <<-11, 4>>, <<-12, 0>>, <<-11, -4>>, <<-8, -8>>, <<-4, -11>>, <<0, -12>>, <<4, -11>>, <<8, -8>>, <<11, -4>> >>,
       << <<13, 0>>, <<12, 4>>, <<9, 9>>, <<4, 12>>, <<0, 13>>, <<-4, 12>>, <<-9, 9>>, <<-12, 4>>, <<-13, 0>>, <<-12, -4>>, <<-9, -9>>, <<-4, -12>>, <<0, -13>>, <<4, -12>>, <<9, -9>>, <<12, -4>> >>,
       << <<14, 0>>, <<12, 5>>, <<9, 9>>, <<5, 12>>, <<0, 14>>, <<-5, 12>>, <<-9, 9>>, <<-12, 5>>, <<-14, 0>>, <<-12, -5>>, <<-9, -9>>, <<-5, -12>>, <<0, -14>>, <<5, -12>>, <<9, -9>>, <<12, -5>> >>,
       << <<15, 0>>, <<13, 5>>, <<10, 10>>, <<5, 13>>, <<0, 15>>, <<-5, 13>>, <<-10, 10>>, <<-13, 5>>, <<-15, 0>>, <<-13, -5>>, <<-10, -10>>, <<-5, -13>>, <<0, -15>>, <<5, -13>>, <<10, -10>>, <<13, -5>> >>,
       << <<16, 0>>, <<14, 6>>, <<11, 11>>, <<6, 14>>, <<0, 16>>, <<-6, 14>>, <<-11, 11>>, <<-14, 6>>, <<-16, 0>>, <<-14, -6>>, <<-11, -11>>, <<-6, -14>>, <<0, -16>>, <<6, -14>>, <<11, -11>>, <<14, -6>> >>,
       << <<17, 0>>, <<15, 6>>, <<12, 12>>, <<6, 15>>, <<0, 17>>, <<-6, 15>>, <<-12, 12>>, <<-15, 6>>, <<-17, 0>>, <<-15, -6>>, <<-12, -12>>, <<-6, -15>>, <<0, -17>>, <<6, -15>>, <<12, -12>>, <<15, -6>> >>,
       << <<18, 0>>, <<16, 6>>, <<12, 12>>, <<6, 16>>, <<0, 18>>, <<-6, 16>>, <<-12, 12>>, <<-16, 6>>, <<-18, 0>>, <<-16, -6>>, <<-12, -12>>, <<-6, -16>>, <<0, -18>>, <<6, -16>>, <<12, -12>>, <<16, -6>> >>,
       << <<19, 0>>, <<17, 7>>, <<13, 13>>, <<7, 17>>, <<0, 19>>, <<-7, 17>>, <<-13, 13>>, <<-17, 7>>, <<-19, 0>>, <<-17, -7>>, <<-13, -13>>, <<-7, -17>>, <<0, -19>>, <<7, -17>>, <<13, -13>>, <<17, -7>> >>,
       << <<20, 0>>, <<18, 7>>, <<14, 14>>, <<7, 18>>, <<0, 20>>, <<-7, 18>>, <<-14, 14>>, <<-18, 7>>, <<-20, 0>>, <<-18, -7>>, <<-14, -14>>, <<-7, -18>>, <<0, -20>>, <<7, -18>>, <<14, -14>>, <<18, -7>> >>,
       << <<21, 0>>, <<19, 8>>, <<14, 14>>, <<8, 19>>, <<0, 21>>, <<-8, 19>>, <<-14, 14>>, <<-19, 8>>, <<-21, 0>>, <<-19, -8>>, <<-14, -14>>, <<-8, -19>>, <<0, -21>>, <<8, -19>>, <<14, -14>>, <<19, -8>> >>,
       << <<22, 0>>, <<20, 8>>, <<15, 15>>, <<8, 20>>, <<0, 22>>, <<-8, 20>>, <<-15, 15>>, <<-20, 8>>, <<-22, 0>>, <<-20, -8>>, <<-15, -15>>, <<-8, -20>>, <<0, -22>>, <<8, -20>>, <<15, -15>>, <<20, -8>> >>,
       << <<23, 0>>, <<21, 8>>, <<16, 16>>, <<8, 21>>, <<0, 23>>, <<-8, 21>>, <<-16, 16>>, <<-21, 8>>, <<-23, 0>>, <<-21, -8>>, <<-16, -16>>, <<-8, -21>>, <<0, -23>>, <<8, -21>>, <<16, -16>>, <<21, -8>> >>,
       << <<24, 0>>, <<22, 9>>, <<16, 16>>, <<9, 22>>, <<0, 24>>, <<-9, 22>>, <<-16, 16>>, <<-22, 9>>, <<-24, 0>>, <<-22, -9>>, <<-16, -16>>, <<-9, -22>>, <<0, -24>>, <<9, -22>>, <<16, -16>>, <<22, -9>> >>,
       << <<25, 0>>, <<23, 9>>, <<17, 17>>, <<9, 23>>, <<0, 25>>, <<-9, 23>>, <<-17, 17>>, <<-23, 9>>, <<-25, 0>>, <<-23, -9>>, <<-17, -17>>, <<-9, -23>>, <<0, -25>>, <<9, -23>>, <<17, -17>>, <<23, -9>> >>
    >>

Window5 == (-2 .. 2) \X (-2 .. 2)

\* the number of offsets of the 5x5 window, clamped into the map, that hit an
\* unexplored cell (a cell on the border is counted once per offset clamped to it)
UnexploredInClampedWindow(m, x, y, offsets) ==
    Cardinality({ o \in offsets :
        LET check_x == AsUsize(Clamp(x + o[1], 0, m.width - 1))
            check_y == AsUsize(Clamp(y + o[2], 0, m.height - 1))
        IN  HasCell(m, check_x, check_y) /\ ~ GetCell(m, check_x, check_y).explored })

UnstuckScore(r, new_x, new_y, m) ==
    (IF ~ GetCell(m, new_x, new_y).explored THEN 150 ELSE 0)
    + 15 * UnexploredInClampedWindow(m, new_x, new_y, Window5)
    + (Abs(new_x - r.x) + Abs(new_y - r.y))

\* a bug: the scan takes a cell whatever robot stands on it
RECURSIVE UnstuckScanAnglesOverRobots(_, _, _, _, _, _)
UnstuckScanAnglesOverRobots(r, m, other_robots, radius, angle, best) ==
    IF angle >= 16
    THEN best
    ELSE LET off == UnstuckOffsets[radius - 7][angle + 1]
             new_x == AsUsize(Clamp(r.x + off[1], 0, m.width - 1))
             new_y == AsUsize(Clamp(r.y + off[2], 0, m.height - 1))
             score == UnstuckScore(r, new_x, new_y, m)
             better ==
                 IF /\ HasCell(m, new_x, new_y)
                    /\ GetCell(m, new_x, new_y).cell_type # Obstacle
                    /\ score > best.best_score
                 THEN [best_score |-> score, best_position |-> <<new_x, new_y>>]
                 ELSE best
         IN  UnstuckScanAnglesOverRobots(r, m, other_robots, radius, angle + 1, better)

\* the body of "for angle in 0..16" for the angles from angle on
RECURSIVE UnstuckScanAngles(_, _, _, _, _, _)
UnstuckScanAngles(r, m, other_robots, radius, angle, best) ==
    IF angle >= 16
    THEN best
    ELSE LET off == UnstuckOffsets[radius - 7][angle + 1]
             new_x == AsUsize(Clamp(r.x + off[1], 0, m.width - 1))
             new_y == AsUsize(Clamp(r.y + off[2], 0, m.height - 1))
             score == UnstuckScore(r, new_x, new_y, m)
             better ==
                 IF /\ HasCell(m, new_x, new_y)
                    /\ GetCell(m, new_x, new_y).cell_type # Obstacle
                    /\ ~ \E k \in 1 .. Len(other_robots) :
                           /\ other_robots[k].x = new_x
                           /\ other_robots[k].y = new_y
                           /\ other_robots[k].energy > 0
                    /\ score > best.best_score
                 THEN [best_score |-> score, best_position |-> <<new_x, new_y>>]
                 ELSE best
         IN  UnstuckScanAngles(r, m, other_robots, radius, angle + 1, better)

\* "for radius in 8..=25" from radius on, with its early break
RECURSIVE UnstuckScanRadii(_, _, _, _, _)
UnstuckScanRadii(r, m, other_robots, radius, best) ==
    IF radius > 25
    THEN best
    ELSE LET b == UnstuckScanAngles(r, m, other_robots, radius, 0, best)
         IN  IF b.best_position # <<>> /\ b.best_score > 200
             THEN b
             ELSE UnstuckScanRadii(r, m, other_robots, radius + 1, b)

UnstuckBest(r, m, other_robots) ==
    UnstuckScanRadii(r, m, other_robots, 8, [best_score |-> -1, best_position |-> <<>>])

\* a bug: the cost of the teleport subtracted without saturation
TryUnstuckPlainSub(r, m, other_robots) ==
    LET best == UnstuckBest(r, m, other_robots)
    IN  IF best.best_position # <<>>
        THEN [robot |-> [r EXCEPT !.x = best.best_position[1],
                                  !.y = best.best_position[2],
                                  !.steps_since_last_find = 0, !.energy = @ - 3],
              teleported |-> TRUE]
        ELSE [robot |-> r, teleported |-> FALSE]

\* try_unstuck: [robot, teleported], teleported telling whether a position was found
TryUnstuck(r, m, other_robots) ==
    LET best == UnstuckBest(r, m, other_robots)
    IN  IF best.best_position # <<>>
        THEN [robot |-> [r EXCEPT !.x = best.best_position[1],
                                  !.y = best.best_position[2],
                                  !.steps_since_last_find = 0,
                                  !.energy = SaturatingSub(@, 3)],
              teleported |-> TRUE]
        ELSE [robot |-> r, teleported |-> FALSE]

-----------------------------------------------------------------------------
(* robot.rs: scoring of the next step *)

Window5NoCentre == Window5 \ {<<0, 0>>}

CalculateExplorerScore(r, x, y, m) ==
    IF HasCell(m, x, y)
    THEN (IF ~ GetCell(m, x, y).explored THEN 150 ELSE -30)
         + (Abs(x - r.x) + Abs(y - r.y)) * 3
         + UnexploredInClampedWindow(m, x, y, Window5NoCentre) * 15
         + (IF x = 0 \/ x = m.width - 1 \/ y = 0 \/ y = m.height - 1 THEN 40 ELSE 0)
         + (IF (x = 0 \/ x = m.width - 1) /\ (y = 0 \/ y = m.height - 1) THEN 20 ELSE 0)
    ELSE 0

CountUnexploredCluster(center_x, center_y, m) ==
    Cardinality({ o \in Window5 :
        LET check_x == AsUsize(Clamp(center_x + o[1], 0, m.width - 1))
            check_y == AsUsize(Clamp(center_y + o[2], 0, m.height - 1))
        IN  /\ HasCell(m, check_x, check_y)
            /\ ~ GetCell(m, check_x, check_y).explored
            /\ GetCell(m, check_x, check_y).cell_type # Obstacle })

\* "for step in 1..=15" from step on, standing on (current_x, current_y)
RECURSIVE UnexploredPotentialFrom(_, _, _, _, _)
UnexploredPotentialFrom(current_x, current_y, direction, m, step) ==
    IF step > 15
    THEN 0
    ELSE LET next == GetNextPositionFrom(current_x, current_y, direction, m)
         IN  IF next # <<>>
             THEN IF HasCell(m, next[1], next[2]) /\ ~ GetCell(m, next[1], next[2]).explored
                  THEN CountUnexploredCluster(next[1], next[2], m) * (16 - step)
                  ELSE UnexploredPotentialFrom(next[1], next[2], direction, m, step + 1)
             ELSE 50

CalculateUnexploredPotential(x, y, direction, m) ==
    UnexploredPotentialFrom(x, y, direction, m, 1)

\* "for direction in directions" of the three choose_* functions: the best
\* direction so far is kept unless a legal step scores strictly more.
\* score is the sequence of the four directions' scores.
RECURSIVE BestDirectionFrom(_, _, _, _, _, _)
BestDirectionFrom(r, m, other_robots, score, k, best) ==
    IF k > Len(Directions)
    THEN best
    ELSE LET next == GetNextPosition(r, Directions[k], m)
             better ==
                 IF /\ next # <<>>
                    /\ IsValidMove(next[1], next[2], m, other_robots)
                    /\ score[k] > best.best_score
                 THEN [best_score |-> score[k], best_direction |-> <<Directions[k]>>]
                 ELSE best
         IN  BestDirectionFrom(r, m, other_robots, score, k + 1, better)

\* the steps in the four directions, in the order of Directions
NextPositions(r, m) ==
    <<GetNextPosition(r, "North", m), GetNextPosition(r, "East", m),
      GetNextPosition(r, "South", m), GetNextPosition(r, "West", m)>>

ChooseDirectionAwayFromExploredAreas(r, m, other_robots) ==
    LET next == NextPositions(r, m)
        Potential(k) == IF next[k] # <<>>
                        THEN CalculateUnexploredPotential(next[k][1], next[k][2],
                                                          Directions[k], m)
                        ELSE 0
    IN  BestDirectionFrom(r, m, other_robots,
                          <<Potential(1), Potential(2), Potential(3), Potential(4)>>, 1,
                          [best_score |-> 0, best_direction |-> <<>>]).best_direction

\* choose_explorer_direction: an Option<Direction>
ChooseExplorerDirection(r, m, other_robots) ==
    LET next == NextPositions(r, m)
        Score(k) == IF next[k] # <<>>
                    THEN CalculateExplorerScore(r, next[k][1], next[k][2], m)
                    ELSE 0
        best == BestDirectionFrom(r, m, other_robots,
                                  <<Score(1), Score(2), Score(3), Score(4)>>, 1,
                                  [best_score |-> -1000, best_direction |-> <<>>])
    IN  IF best.best_direction = <<>> \/ best.best_score < 0
        THEN ChooseDirectionAwayFromExploredAreas(r, m, other_robots)
        ELSE best.best_direction

\* calculate_resource_score without its random term
ResourceScoreBase(x, y, m, target_kind) ==
    (IF HasCell(m, x, y) /\ GetCell(m, x, y).cell_type.kind = target_kind THEN 25 ELSE 0)
    + (IF HasCell(m, x, y) /\ ~ GetCell(m, x, y).explored THEN 5 ELSE 0)
    + LET Hit(o) == HasCell(m, AsUsize(x + o[1]), AsUsize(y + o[2]))
          At(o) == GetCell(m, AsUsize(x + o[1]), AsUsize(y + o[2]))
          Sum[n \in 0 .. 4] ==
              \* the sum of 8 - distance over the target cells at distance <= n
              IF n = 0 THEN 0
              ELSE Sum[n - 1]
                   + (8 - n) * Cardinality({ o \in Window5NoCentre :
                         /\ Abs(o[1]) + Abs(o[2]) = n
                         /\ Hit(o)
                         /\ At(o).cell_type.kind = target_kind })
      IN  Sum[4] + Cardinality({ o \in Window5NoCentre : Hit(o) /\ ~ At(o).explored })

\* calculate_resource_score, rnd the value drawn by rng.gen_range(-1..=1)
CalculateResourceScore(x, y, m, target_kind, rnd) ==
    ResourceScoreBase(x, y, m, target_kind) + rnd

\* choose_resource_direction: the set of the Option<Direction>s it can return,
\* one per outcome of the random draws
ChooseResourceDirection(r, m, other_robots, target_kind) ==
    LET next == NextPositions(r, m)
        Base(k) == IF next[k] # <<>>
                   THEN ResourceScoreBase(next[k][1], next[k][2], m, target_kind)
                   ELSE 0
        base == <<Base(1), Base(2), Base(3), Base(4)>>
    IN  { BestDirectionFrom(r, m, other_robots,
                            <<base[1] + rnd[1], base[2] + rnd[2],
                              base[3] + rnd[3], base[4] + rnd[4]>>, 1,
                            [best_score |-> -1, best_direction |-> <<>>]).best_direction :
          rnd \in [1 .. Len(Directions) -> {-1, 0, 1}] }

\* the dispatch on robot_type in autonomous_explore
ChooseDirection(r, m, other_robots) ==
    CASE r.robot_type = "Explorer" -> {ChooseExplorerDirection(r, m, other_robots)}
      [] r.robot_type = "EnergyCollector" -> ChooseResourceDirection(r, m, other_robots, "Energy")
      [] r.robot_type = "MineralCollector" -> ChooseResourceDirection(r, m, other_robots, "Mineral")
      [] r.robot_type = "Scientist" -> ChooseResourceDirection(r, m, other_robots, "SciencePoint")

-----------------------------------------------------------------------------
(* robot.rs: random movement *)

SwapAt(seq, i, j) == [seq EXCEPT ![i] = seq[j], ![j] = seq[i]]

\* "for i in 0..len { j = rng.gen_range(0..len); swap(i, j) }" from i on
RECURSIVE ShuffleFrom(_, _)
ShuffleFrom(seq, i) ==
    IF i > Len(seq)
    THEN {seq}
    ELSE UNION { ShuffleFrom(SwapAt(seq, i, j), i + 1) : j \in 1 .. Len(seq) }

ShuffledDirections == ShuffleFrom(Directions, 1)

\* "for direction in ..." returning at the first successful move
RECURSIVE FirstSuccessfulMove(_, _, _, _, _)
FirstSuccessfulMove(r, directions, k, m, other_robots) ==
    IF k > Len(directions)
    THEN [robot |-> r, ok |-> FALSE]
    ELSE LET mv == MoveInDirection(r, directions[k], m, other_robots)
         IN  IF mv.ok THEN mv
             ELSE FirstSuccessfulMove(r, directions, k + 1, m, other_robots)

\* move_randomly: the set of its outcomes [robot, ok]
MoveRandomly(r, m, other_robots) ==
    { FirstSuccessfulMove(r, shuffled, 1, m, other_robots) : shuffled \in ShuffledDirections }

-----------------------------------------------------------------------------
(* robot.rs: the state machine.  An update has several outcomes where the code
   draws random numbers; each outcome is [robot, map, log], log telling which
   branches the update took. *)

NoLog ==
    [branch |-> "none", collected |-> FALSE, move |-> "none", moved |-> FALSE,
     found |-> FALSE, steps_before_scan |-> 0, robot_before_scan |-> <<>>,
     unstuck |-> FALSE, teleported |-> FALSE]

\* a bug: the threshold of 20 alone for the energy, the one of 25 forgotten
ShouldReturnToStationLowReserve(r) ==
    \/ r.energy <= 20
    \/ r.robot_type = "Explorer" /\ Len(r.pending_exploration_updates) > 30
    \/ r.robot_type = "EnergyCollector" /\ r.energy > INITIAL_ROBOT_ENERGY + 70
    \/ r.robot_type = "MineralCollector" /\ r.minerals > 35
    \/ r.robot_type = "Scientist" /\ r.science_points > 6

\* a bug: the low-energy threshold alone, the cargo thresholds forgotten
ShouldReturnToStationEnergyOnly(r) == r.energy <= 25

ShouldReturnToStation(r) ==
    IF r.energy <= 20
    THEN TRUE
    ELSE CASE r.robot_type = "Explorer" ->
                r.energy <= 25 \/ Len(r.pending_exploration_updates) > 30
           [] r.robot_type = "EnergyCollector" ->
                r.energy <= 25 \/ r.energy > INITIAL_ROBOT_ENERGY + 70
           [] r.robot_type = "MineralCollector" ->
                r.minerals > 35 \/ r.energy <= 25
           [] r.robot_type = "Scientist" ->
                r.science_points > 6 \/ r.energy <= 25

\* lines 202-205 of autonomous_explore: the scan, run when the counter exceeds 5.
\* The log keeps the robot as the step has left it (robot_before_scan) and its
\* counter (steps_before_scan).
UnstuckIfStuck(out, other_robots) ==
    IF out.robot.steps_since_last_find > 5
    THEN LET tried == TryUnstuck(out.robot, out.map, other_robots)
         IN  [out EXCEPT !.robot = tried.robot,
                         !.log.steps_before_scan = out.robot.steps_since_last_find,
                         !.log.robot_before_scan = out.robot,
                         !.log.unstuck = TRUE,
                         !.log.teleported = tried.teleported]
    ELSE [out EXCEPT !.log.steps_before_scan = out.robot.steps_since_last_find,
                     !.log.robot_before_scan = out.robot]

\* a bug: the counter is not reset when the step lands on a resource
AfterScoredMoveNoReset(r, m, direction, other_robots, log) ==
    LET mv == MoveInDirection(r, direction, m, other_robots)
    IN  [robot |-> [mv.robot EXCEPT !.steps_since_last_find = @ + 1],
         map |-> m,
         log |-> [log EXCEPT !.move = "scored", !.moved = mv.ok,
                             !.found = mv.ok /\ FoundSomethingAtCurrentPosition(mv.robot, m)]]

\* a bug: the counter is reset by every step taken, resource or not
AfterScoredMoveResetOnAnyMove(r, m, direction, other_robots, log) ==
    LET mv == MoveInDirection(r, direction, m, other_robots)
    IN  [robot |-> [mv.robot EXCEPT
                      !.steps_since_last_find = IF mv.ok THEN 0 ELSE @ + 1],
         map |-> m,
         log |-> [log EXCEPT !.move = "scored", !.moved = mv.ok,
                             !.found = mv.ok /\ FoundSomethingAtCurrentPosition(mv.robot, m)]]

\* lines 184-193 of autonomous_explore: the step in the chosen direction
AfterScoredMove(r, m, direction, other_robots, log) ==
    LET mv == MoveInDirection(r, direction, m, other_robots)
    IN  IF mv.ok
        THEN IF FoundSomethingAtCurrentPosition(mv.robot, m)
             THEN [robot |-> [mv.robot EXCEPT !.steps_since_last_find = 0],
                   map |-> m,
                   log |-> [log EXCEPT !.move = "scored", !.moved = TRUE, !.found = TRUE]]
             ELSE [robot |-> [mv.robot EXCEPT !.steps_since_last_find = @ + 1],
                   map |-> m,
                   log |-> [log EXCEPT !.move = "scored", !.moved = TRUE]]
        ELSE [robot |-> [mv.robot EXCEPT !.steps_since_last_find = @ + 1],
              map |-> m,
              log |-> [log EXCEPT !.move = "scored"]]

\* a bug: a random step that fails is not counted
AfterRandomMoveNotCounted(r, m, other_robots, log) ==
    { [robot |-> mv.robot, map |-> m,
       log |-> [log EXCEPT !.move = "random", !.moved = mv.ok]] :
      mv \in MoveRandomly(r, m, other_robots) }

\* lines 194-200 of autonomous_explore: no direction chosen, random movement
AfterRandomMove(r, m, other_robots, log) ==
    { IF mv.ok
      THEN [robot |-> mv.robot, map |-> m,
            log |-> [log EXCEPT !.move = "random", !.moved = TRUE]]
      ELSE [robot |-> [mv.robot EXCEPT !.steps_since_last_find = @ + 1], map |-> m,
            log |-> [log EXCEPT !.move = "random"]] :
      mv \in MoveRandomly(r, m, other_robots) }

\* a bug: the cell is emptied and recorded before the return policy is asked
AutonomousExploreCollectsFirst(r, m, station_x, station_y, other_robots) ==
    LET collected == CollectResource(r, m)
        explored == Explore(collected.robot, collected.map)
        log == [NoLog EXCEPT !.branch = "explore", !.collected = collected.ok]
        stepped ==
            UNION { IF next_direction # <<>>
                    THEN { AfterScoredMove(explored.robot, explored.map,
                                           next_direction[1], other_robots, log) }
                    ELSE AfterRandomMove(explored.robot, explored.map, other_robots, log) :
                    next_direction \in
                        ChooseDirection(explored.robot, explored.map, other_robots) }
    IN  IF ShouldReturnToStation(r)
        THEN { [robot |-> [explored.robot EXCEPT !.state = "ReturningToStation",
                                                 !.target_x = <<station_x>>,
                                                 !.target_y = <<station_y>>],
                map |-> explored.map,
                log |-> [NoLog EXCEPT !.branch = "return_fired"]] }
        ELSE { UnstuckIfStuck(out, other_robots) : out \in stepped }

\* a bug: the cell is recorded before its resource is extracted
AutonomousExploreRecordsFirst(r, m, station_x, station_y, other_robots) ==
    IF ShouldReturnToStation(r)
    THEN { [robot |-> [r EXCEPT !.state = "ReturningToStation",
                                !.target_x = <<station_x>>,
                                !.target_y = <<station_y>>],
            map |-> m,
            log |-> [NoLog EXCEPT !.branch = "return_fired"]] }
    ELSE LET explored == Explore(r, m)
             collected == CollectResource(explored.robot, explored.map)
             log == [NoLog EXCEPT !.branch = "explore", !.collected = collected.ok]
             stepped ==
                 UNION { IF next_direction # <<>>
                         THEN { AfterScoredMove(collected.robot, collected.map,
                                                next_direction[1], other_robots, log) }
                         ELSE AfterRandomMove(collected.robot, collected.map,
                                              other_robots, log) :
                         next_direction \in
                             ChooseDirection(collected.robot, collected.map, other_robots) }
         IN  { UnstuckIfStuck(out, other_robots) : out \in stepped }

\* autonomous_explore: the set of its outcomes
AutonomousExplore(r, m, station_x, station_y, other_robots) ==
    IF ShouldReturnToStation(r)
    THEN { [robot |-> [r EXCEPT !.state = "ReturningToStation",
                                !.target_x = <<station_x>>,
                                !.target_y = <<station_y>>],
            map |-> m,
            log |-> [NoLog EXCEPT !.branch = "return_fired"]] }
    ELSE LET collected == CollectResource(r, m)
             explored == Explore(collected.robot, collected.map)
             log == [NoLog EXCEPT !.branch = "explore", !.collected = collected.ok]
             stepped ==
                 UNION { IF next_direction # <<>>
                         THEN { AfterScoredMove(explored.robot, explored.map,
                                                next_direction[1], other_robots, log) }
                         ELSE AfterRandomMove(explored.robot, explored.map, other_robots, log) :
                         next_direction \in
                             ChooseDirection(explored.robot, explored.map, other_robots) }
         IN  { UnstuckIfStuck(out, other_robots) : out \in stepped }

GetDirectionToPosition(r, target_x, target_y) ==
    LET sx == Signum(target_x - r.x)
        sy == Signum(target_y - r.y)
    IN  CASE sx = 1 /\ sy = 0 -> <<"East">>
          [] sx = -1 /\ sy = 0 -> <<"West">>
          [] sx = 0 /\ sy = 1 -> <<"South">>
          [] sx = 0 /\ sy = -1 -> <<"North">>
          [] OTHER -> <<>>

\* a bug: the fallback tries the vertical direction towards the station first
FallbackDirectionsVerticalFirst(r, station_x, station_y) ==
    LET dx == IF r.x < station_x THEN 1 ELSE IF r.x > station_x THEN -1 ELSE 0
        dy == IF r.y < station_y THEN 1 ELSE IF r.y > station_y THEN -1 ELSE 0
    IN  IF dy > 0 THEN <<"South", "East", "West", "North">>
        ELSE IF dy < 0 THEN <<"North", "East", "West", "South">>
        ELSE IF dx > 0 THEN <<"East", "North", "South", "West">>
        ELSE <<"West", "North", "South", "East">>

\* the direction list of the fallback of move_towards_station
FallbackDirections(r, station_x, station_y) ==
    LET dx == IF r.x < station_x THEN 1 ELSE IF r.x > station_x THEN -1 ELSE 0
        dy == IF r.y < station_y THEN 1 ELSE IF r.y > station_y THEN -1 ELSE 0
    IN  IF dx > 0 /\ dy > 0 THEN <<"East", "South", "North", "West">>
        ELSE IF dx > 0 /\ dy < 0 THEN <<"East", "North", "South", "West">>
        ELSE IF dx < 0 /\ dy > 0 THEN <<"West", "South", "North", "East">>
        ELSE IF dx < 0 /\ dy < 0 THEN <<"West", "North", "South", "East">>
        ELSE IF dx > 0 THEN <<"East", "North", "South", "West">>
        ELSE IF dx < 0 THEN <<"West", "North", "South", "East">>
        ELSE IF dy > 0 THEN <<"South", "East", "West", "North">>
        ELSE <<"North", "East", "West", "South">>

\* lines 475-505 of move_towards_station: the fallback after the planner
FallbackTowardsStation(r, m, station_x, station_y, other_robots, log) ==
    LET greedy == FirstSuccessfulMove(r, FallbackDirections(r, station_x, station_y), 1,
                                      m, other_robots)
    IN  IF greedy.ok
        THEN { [robot |-> greedy.robot, map |-> m,
                log |-> [log EXCEPT !.move = "greedy", !.moved = TRUE]] }
        ELSE { [robot |-> mv.robot, map |-> m,
                log |-> [log EXCEPT !.move = "random", !.moved = mv.ok]] :
               mv \in MoveRandomly(r, m, other_robots) }

\* move_towards_station: the set of its outcomes
MoveTowardsStation(r, m, station_x, station_y, other_robots) ==
    IF r.x = station_x /\ r.y = station_y
    THEN { [robot |-> [r EXCEPT !.state = "AtStation"], map |-> m,
            log |-> [NoLog EXCEPT !.branch = "arrived"]] }
    ELSE LET path == FindPath(r.x, r.y, station_x, station_y, m, other_robots)
             log == [NoLog EXCEPT !.branch = "towards_station"]
             direction == IF Len(path) > 1
                          THEN GetDirectionToPosition(r, path[2][1], path[2][2])
                          ELSE <<>>
             planned == IF direction # <<>>
                        THEN MoveInDirection(r, direction[1], m, other_robots)
                        ELSE [robot |-> r, ok |-> FALSE]
         IN  IF planned.ok
             THEN { [robot |-> planned.robot, map |-> m,
                     log |-> [log EXCEPT !.move = "planned", !.moved = TRUE]] }
             ELSE FallbackTowardsStation(r, m, station_x, station_y, other_robots, log)

\* a bug: a robot that arrives at the station resumes exploring at once
AutonomousUpdateResumesOnArrival(r, m, station_x, station_y, other_robots) ==
    IF r.energy = 0
    THEN { [robot |-> r, map |-> m, log |-> [NoLog EXCEPT !.branch = "inert"]] }
    ELSE CASE r.state = "Exploring" ->
                AutonomousExplore(r, m, station_x, station_y, other_robots)
           [] r.state = "ReturningToStation" ->
                { [out EXCEPT !.robot.state = IF @ = "AtStation" THEN "Exploring" ELSE @] :
                  out \in MoveTowardsStation(r, m, station_x, station_y, other_robots) }
           [] r.state = "AtStation" ->
                { [robot |-> [r EXCEPT !.state = "Exploring"], map |-> m,
                   log |-> [NoLog EXCEPT !.branch = "at_station"]] }

\* a bug: a robot without energy goes on with its state machine
AutonomousUpdateWithoutEnergy(r, m, station_x, station_y, other_robots) ==
    CASE r.state = "Exploring" ->
            AutonomousExplore(r, m, station_x, station_y, other_robots)
      [] r.state = "ReturningToStation" ->
            MoveTowardsStation(r, m, station_x, station_y, other_robots)
      [] r.state = "AtStation" ->
            { [robot |-> [r EXCEPT !.state = "Exploring"], map |-> m,
               log |-> [NoLog EXCEPT !.branch = "at_station"]] }

\* autonomous_update: the set of its outcomes
AutonomousUpdate(r, m, station_x, station_y, other_robots) ==
    IF r.energy = 0
    THEN { [robot |-> r, map |-> m, log |-> [NoLog EXCEPT !.branch = "inert"]] }
    ELSE CASE r.state = "Exploring" ->
                AutonomousExplore(r, m, station_x, station_y, other_robots)
           [] r.state = "ReturningToStation" ->
                MoveTowardsStation(r, m, station_x, station_y, other_robots)
           [] r.state = "AtStation" ->
                { [robot |-> [r EXCEPT !.state = "Exploring"], map |-> m,
                   log |-> [NoLog EXCEPT !.branch = "at_station"]] }

-----------------------------------------------------------------------------
(* station.rs.  The Station of the code owns its robots; here the robots are
   the variable robots and the rest of the Station is the record station. *)

ROBOT_ENERGY_COST == 100
ROBOT_MINERAL_COST == 50
ROBOT_CREATION_MINERAL_BUFFER == 100
ROBOT_CREATION_ENERGY_BUFFER == 300
MAX_ROBOT_COUNT == 12
MIN_KNOWN_UNTAPPED_VALUABLE_CELLS_FOR_NEW_ROBOT == 2
STATION_START_ENERGY == 2000
STATION_START_MINERALS == 500

\* Station::new, without the (empty) robots
NewStation(x, y) ==
    [x |-> x, y |-> y,
     energy |-> STATION_START_ENERGY,
     minerals |-> STATION_START_MINERALS,
     science_points |-> 0,
     known_map |-> EmptyMapping]

CollectResources(st, energy, minerals, science) ==
    [st EXCEPT !.energy = @ + energy,
               !.minerals = @ + minerals,
               !.science_points = @ + science]

\* a bug: the energy alone is checked
ConsumeResourcesEnergyOnly(st, energy_cost, mineral_cost) ==
    IF st.energy >= energy_cost
    THEN [station |-> [st EXCEPT !.energy = @ - energy_cost,
                                 !.minerals = SaturatingSub(@, mineral_cost)],
          ok |-> TRUE]
    ELSE [station |-> st, ok |-> FALSE]

\* consume_resources: [station, ok]
ConsumeResources(st, energy_cost, mineral_cost) ==
    IF st.energy >= energy_cost /\ st.minerals >= mineral_cost
    THEN [station |-> [st EXCEPT !.energy = @ - energy_cost,
                                 !.minerals = @ - mineral_cost],
          ok |-> TRUE]
    ELSE [station |-> st, ok |-> FALSE]

\* the number of entries of known_map whose value satisfies P
\* the counts taken over known_map.values()
EnergySources(st) ==
    Cardinality({ p \in DOMAIN st.known_map :
        st.known_map[p].kind = "Energy" /\ st.known_map[p].amount > 0 })

MineralSources(st) ==
    Cardinality({ p \in DOMAIN st.known_map :
        st.known_map[p].kind = "Mineral" /\ st.known_map[p].amount > 0 })

ScienceSources(st) ==
    Cardinality({ p \in DOMAIN st.known_map : st.known_map[p].kind = "SciencePoint" })

EmptyCells(st) ==
    Cardinality({ p \in DOMAIN st.known_map : st.known_map[p].kind = "Empty" })

KnownUntappedValuableCells(st) ==
    EnergySources(st) + MineralSources(st)
        + ScienceSources(st)

\* a bug: the buffers left out of the resource check
ShouldCreateRobotNoBuffer(st, rs) ==
    IF Len(rs) >= MAX_ROBOT_COUNT
    THEN FALSE
    ELSE IF st.minerals < ROBOT_MINERAL_COST \/ st.energy < ROBOT_ENERGY_COST
    THEN FALSE
    ELSE IF KnownUntappedValuableCells(st) < MIN_KNOWN_UNTAPPED_VALUABLE_CELLS_FOR_NEW_ROBOT
    THEN FALSE
    ELSE TRUE

\* a bug: the number of robots is not looked at
ShouldCreateRobotNoCap(st, rs) ==
    IF \/ st.minerals < ROBOT_MINERAL_COST + ROBOT_CREATION_MINERAL_BUFFER
       \/ st.energy < ROBOT_ENERGY_COST + ROBOT_CREATION_ENERGY_BUFFER
    THEN FALSE
    ELSE IF KnownUntappedValuableCells(st) < MIN_KNOWN_UNTAPPED_VALUABLE_CELLS_FOR_NEW_ROBOT
    THEN FALSE
    ELSE TRUE

ShouldCreateRobot(st, rs) ==
    IF Len(rs) >= MAX_ROBOT_COUNT
    THEN FALSE
    ELSE IF \/ st.minerals < ROBOT_MINERAL_COST + ROBOT_CREATION_MINERAL_BUFFER
            \/ st.energy < ROBOT_ENERGY_COST + ROBOT_CREATION_ENERGY_BUFFER
    THEN FALSE
    ELSE IF KnownUntappedValuableCells(st) < MIN_KNOWN_UNTAPPED_VALUABLE_CELLS_FOR_NEW_ROBOT
    THEN FALSE
    ELSE TRUE

CountType(rs, robot_type) ==
    Cardinality({ k \in 1 .. Len(rs) : rs[k].robot_type = robot_type })

\* a bug: the mineral and the scientist rule in the wrong order
ChooseRobotTypeScientistFirst(st, rs) ==
    LET explorer_count == CountType(rs, "Explorer")
        energy_sources == EnergySources(st)
        mineral_sources == MineralSources(st)
    IN  IF explorer_count = 0 \/ (EmptyCells(st) > 10 /\ explorer_count < 2)
        THEN "Explorer"
        ELSE IF st.energy < 300 /\ energy_sources > 0 /\ CountType(rs, "EnergyCollector") < 2
        THEN "EnergyCollector"
        ELSE IF ScienceSources(st) > 0 /\ CountType(rs, "Scientist") < 1
        THEN "Scientist"
        ELSE IF mineral_sources > energy_sources /\ CountType(rs, "MineralCollector") < 2
        THEN "MineralCollector"
        ELSE "Explorer"

\* a bug: a station that holds exactly 300 energy counts as low on energy
ChooseRobotTypeLowAtThreshold(st, rs) ==
    LET explorer_count == CountType(rs, "Explorer")
        energy_sources == EnergySources(st)
        mineral_sources == MineralSources(st)
    IN  IF explorer_count = 0 \/ (EmptyCells(st) > 10 /\ explorer_count < 2)
        THEN "Explorer"
        ELSE IF st.energy <= 300 /\ energy_sources > 0 /\ CountType(rs, "EnergyCollector") < 2
        THEN "EnergyCollector"
        ELSE IF mineral_sources > energy_sources /\ CountType(rs, "MineralCollector") < 2
        THEN "MineralCollector"
        ELSE IF ScienceSources(st) > 0 /\ CountType(rs, "Scientist") < 1
        THEN "Scientist"
        ELSE "Explorer"

ChooseRobotType(st, rs) ==
    LET explorer_count == CountType(rs, "Explorer")
        energy_collector_count == CountType(rs, "EnergyCollector")
        mineral_collector_count == CountType(rs, "MineralCollector")
        scientist_count == CountType(rs, "Scientist")
        energy_sources == EnergySources(st)
        mineral_sources == MineralSources(st)
        science_sources == ScienceSources(st)
        unexplored_cells == EmptyCells(st)
    IN  IF explorer_count = 0 \/ (unexplored_cells > 10 /\ explorer_count < 2)
        THEN "Explorer"
        ELSE IF st.energy < 300 /\ energy_sources > 0 /\ energy_collector_count < 2
        THEN "EnergyCollector"
        ELSE IF mineral_sources > energy_sources /\ mineral_collector_count < 2
        THEN "MineralCollector"
        ELSE IF science_sources > 0 /\ scientist_count < 1
        THEN "Scientist"
        ELSE "Explorer"

\* create_robot: [station, robots, ok]
CreateRobot(st, rs, start_x, start_y) ==
    LET paid == ConsumeResources(st, ROBOT_ENERGY_COST, ROBOT_MINERAL_COST)
    IN  IF paid.ok
        THEN [station |-> paid.station,
              robots |-> Append(rs, NewWithType(start_x, start_y,
                                                ChooseRobotType(paid.station, rs))),
              ok |-> TRUE]
        ELSE [station |-> paid.station, robots |-> rs, ok |-> FALSE]

\* a bug: an entry the station already knows is kept, the update is dropped
RECURSIVE InsertUpdatesFromKeepsKnown(_, _, _)
InsertUpdatesFromKeepsKnown(known_map, data_from_robot, k) ==
    IF k > Len(data_from_robot)
    THEN known_map
    ELSE InsertUpdatesFromKeepsKnown(
             known_map @@ (data_from_robot[k][1] :> data_from_robot[k][2]),
             data_from_robot, k + 1)

\* "for ((x, y), cell_type) in data_from_robot" from the k-th update on
RECURSIVE InsertUpdatesFrom(_, _, _)
InsertUpdatesFrom(known_map, data_from_robot, k) ==
    IF k > Len(data_from_robot)
    THEN known_map
    ELSE InsertUpdatesFrom((data_from_robot[k][1] :> data_from_robot[k][2]) @@ known_map,
                           data_from_robot, k + 1)

\* share_data (analyze_map_data changes nothing)
ShareData(st, data_from_robot) ==
    [st EXCEPT !.known_map = InsertUpdatesFrom(@, data_from_robot, 1)]

-----------------------------------------------------------------------------
(* main.rs: the steps of the tick loop on one robot *)

\* a bug: the robot is refuelled whether or not the station can pay, and the
\* station pays what it has
InteractAtStationOnCredit(st, r) ==
    LET unloaded == UnloadPayload(r)
        payload == unloaded.payload
        st1 == CollectResources(st, payload[1], payload[2], payload[3])
        taken == GetExplorationUpdates(unloaded.robot)
        st2 == ShareData(st1, taken.updates)
        refuel_cost == SaturatingSub(INITIAL_ROBOT_ENERGY, taken.robot.energy)
    IN  [station |-> [st2 EXCEPT !.energy = SaturatingSub(@, refuel_cost)],
         robot |-> [taken.robot EXCEPT !.energy = INITIAL_ROBOT_ENERGY,
                                       !.state = "Exploring"],
         payload |-> payload,
         updates |-> taken.updates,
         refueled |-> refuel_cost > 0]

\* lines 182-203: unload, share the map data, refuel, resume exploring.
\* [station, robot, payload, updates, refueled]
InteractAtStation(st, r) ==
    LET unloaded == UnloadPayload(r)
        payload == unloaded.payload
        st1 == IF payload[1] > 0 \/ payload[2] > 0 \/ payload[3] > 0
               THEN CollectResources(st, payload[1], payload[2], payload[3])
               ELSE st
        taken == GetExplorationUpdates(unloaded.robot)
        st2 == IF taken.updates # <<>> THEN ShareData(st1, taken.updates) ELSE st1
        refuel_cost == SaturatingSub(INITIAL_ROBOT_ENERGY, taken.robot.energy)
        refuel == refuel_cost > 0 /\ st2.energy >= refuel_cost
    IN  [station |-> IF refuel THEN [st2 EXCEPT !.energy = @ - refuel_cost] ELSE st2,
         robot |-> [taken.robot EXCEPT
                      !.energy = IF refuel THEN INITIAL_ROBOT_ENERGY ELSE @,
                      !.state = "Exploring"],
         payload |-> payload,
         updates |-> taken.updates,
         refueled |-> refuel]

\* a bug: the robot is refuelled where it lies
RespawnDeadInPlace(st, r) ==
    LET refuel == st.energy >= INITIAL_ROBOT_ENERGY
    IN  [station |-> IF refuel THEN [st EXCEPT !.energy = @ - INITIAL_ROBOT_ENERGY] ELSE st,
         robot |-> [r EXCEPT !.state = "AtStation",
                             !.steps_since_last_find = 0,
                             !.energy = IF refuel THEN INITIAL_ROBOT_ENERGY ELSE @],
         refueled |-> refuel]

\* a bug: the robot is refuelled and the station is not charged
RespawnDeadFree(st, r) ==
    [station |-> st,
     robot |-> [r EXCEPT !.x = st.x, !.y = st.y, !.state = "AtStation",
                         !.steps_since_last_find = 0,
                         !.energy = IF st.energy >= INITIAL_ROBOT_ENERGY
                                    THEN INITIAL_ROBOT_ENERGY ELSE @],
     refueled |-> st.energy >= INITIAL_ROBOT_ENERGY]

\* lines 208-219, the body of "if robot.energy == 0": [station, robot, refueled]
RespawnDead(st, r) ==
    LET moved == [r EXCEPT !.x = st.x, !.y = st.y,
                           !.state = "AtStation",
                           !.steps_since_last_find = 0]
    IN  IF st.energy >= INITIAL_ROBOT_ENERGY
        THEN [station |-> [st EXCEPT !.energy = @ - INITIAL_ROBOT_ENERGY],
              robot |-> [moved EXCEPT !.energy = INITIAL_ROBOT_ENERGY],
              refueled |-> TRUE]
        ELSE [station |-> st, robot |-> moved, refueled |-> FALSE]

\* the offsets find_clear_spot_for_robot_avoiding_others tries for one radius,
\* in the order of its two loops
RingOffsets(radius) ==
    LET side == 2 * radius + 1
        all == [n \in 1 .. side * side |->
                  <<((n - 1) \div side) - radius, ((n - 1) % side) - radius>>]
    IN  SelectSeq(all, LAMBDA o : Abs(o[1]) = radius \/ Abs(o[2]) = radius)

\* the first position of a sequence of positions that is a free cell of the map
RECURSIVE FirstClearSpot(_, _, _, _, _)
FirstClearSpot(m, station_x, station_y, spots, k) ==
    IF k > Len(spots)
    THEN <<>>
    ELSE LET new_x == spots[k][1]
             new_y == spots[k][2]
         IN  IF /\ new_x < m.width /\ new_y < m.height
                /\ ~ (new_x = station_x /\ new_y = station_y)
                /\ GetCell(m, new_x, new_y).cell_type # Obstacle
             THEN <<new_x, new_y>>
             ELSE FirstClearSpot(m, station_x, station_y, spots, k + 1)

\* find_clear_spot_for_robot: no robot is avoided (existing_robots is empty)
FindClearSpotForRobot(m, station_x, station_y) ==
    LET rings == RingOffsets(1) \o RingOffsets(2) \o RingOffsets(3)
                     \o RingOffsets(4) \o RingOffsets(5)
        near == [k \in 1 .. Len(rings) |->
                   <<AsUsize(station_x + rings[k][1]), AsUsize(station_y + rings[k][2])>>]
        rows == [n \in 1 .. m.width * m.height |->
                   <<(n - 1) % m.width, (n - 1) \div m.width>>]
        spot == FirstClearSpot(m, station_x, station_y, near \o rows, 1)
    IN  IF spot # <<>> THEN spot ELSE <<0, 0>>

\* lines 223-231: [station, robots, created]
CreationStep(st, rs, m) ==
    IF ShouldCreateRobot(st, rs)
    THEN LET spot == FindClearSpotForRobot(m, st.x, st.y)
         IN  IF /\ HasCell(m, spot[1], spot[2])
                /\ GetCell(m, spot[1], spot[2]).cell_type # Obstacle
                /\ ~ (spot[1] = st.x /\ spot[2] = st.y)
             THEN LET made == CreateRobot(st, rs, spot[1], spot[2])
                  IN  [station |-> made.station, robots |-> made.robots,
                       created |-> made.ok]
             ELSE [station |-> st, robots |-> rs, created |-> FALSE]
    ELSE [station |-> st, robots |-> rs, created |-> FALSE]

-----------------------------------------------------------------------------
(* Values of the variables a specification does not use *)

NoStation ==
    [x |-> 0, y |-> 0, energy |-> 0, minerals |-> 0, science_points |-> 0,
     known_map |-> EmptyMapping]

NoEvent == [op |-> "none"]

NoSearch == [status |-> "idle"]

-----------------------------------------------------------------------------
(* PathSpec: find_path for robots[1], the other robots being the rest of
   robots, one iteration of its loop a step; replay is a second run on the
   same inputs. *)

\* maps of the given size whose cells are Empty but for at most n obstacles
ObstacleMaps(w, h, n) ==
    { [width |-> w, height |-> h,
       cells |-> [p \in Positions(w, h) |->
                    NewCell(IF p \in obs THEN Obstacle ELSE Empty)]] :
      obs \in { o \in SUBSET Positions(w, h) : Cardinality(o) <= n } }

PathInit ==
    /\ map \in ObstacleMaps(MapW, MapH, MaxObstacles)
    /\ \E start \in Positions(MapW, MapH), other \in Positions(MapW, MapH),
          e \in {0, INITIAL_ROBOT_ENERGY} :
          /\ map.cells[start].cell_type.kind # "Obstacle"
          /\ map.cells[other].cell_type.kind # "Obstacle"
          /\ robots = << NewWithType(start[1], start[2], "Explorer"),
                        [NewWithType(other[1], other[2], "Explorer") EXCEPT !.energy = e] >>
    /\ \E goal \in Positions(MapW, MapH) :
          search = FindPathStart(robots[1].x, robots[1].y, goal[1], goal[2])
    /\ replay = search
    /\ station = NoStation
    /\ phase = "find_path"
    /\ idx = 0
    /\ ticks = 0
    /\ ev = NoEvent

\* the states one more step of the loop can leave the run s in
FindPathStep(s) ==
    IF s.status # "running"
    THEN {s}
    ELSE IF s.open_set = <<>>
    THEN {FindPathExhausted(s)}
    ELSE { FindPathIteration(s, p, map, OtherRobots(robots, 1)) : p \in HeapPop(s.open_set) }

PathStep ==
    /\ phase = "find_path"
    /\ search.status = "running" \/ replay.status = "running"
    /\ search' \in FindPathStep(search)
    /\ replay' \in FindPathStep(replay)
    /\ UNCHANGED <<map, station, robots, phase, idx, ticks, ev>>

PathNext == PathStep

PathSpec == PathInit /\ [][PathNext]_vars

-----------------------------------------------------------------------------
(* Claims about find_path (PathSpec) *)

\* a cell a path may enter: in-bounds, no Obstacle, no other robot with energy
LegalCell(p, m, other_robots) ==
    /\ p \in Positions(m.width, m.height)
    /\ m.cells[p].cell_type.kind # "Obstacle"
    /\ ~ \E k \in 1 .. Len(other_robots) :
           <<other_robots[k].x, other_robots[k].y>> = p /\ other_robots[k].energy > 0

Adjacent4(p) ==
    { <<p[1] - 1, p[2]>>, <<p[1] + 1, p[2]>>, <<p[1], p[2] - 1>>, <<p[1], p[2] + 1>> }

\* breadth-first search: the number of steps of a shortest legal walk from the
\* frontier (d steps from the start) to goal, -1 when there is none
RECURSIVE BfsFrom(_, _, _, _, _, _)
BfsFrom(frontier, seen, d, goal, m, other_robots) ==
    IF goal \in frontier
    THEN d
    ELSE LET next == { q \in UNION { Adjacent4(p) : p \in frontier } :
                         LegalCell(q, m, other_robots) /\ q \notin seen }
         IN  IF next = {}
             THEN -1
             ELSE BfsFrom(next, seen \cup next, d + 1, goal, m, other_robots)

BfsDistance(start, goal, m, other_robots) ==
    BfsFrom({start}, {start}, 0, goal, m, other_robots)

PathStart == <<robots[1].x, robots[1].y>>

PathBfs == BfsDistance(PathStart, search.goal, map, OtherRobots(robots, 1))

PathObstacleFree ==
    /\ \A p \in Positions(map.width, map.height) : map.cells[p].cell_type.kind # "Obstacle"
    /\ \A k \in 2 .. Len(robots) : robots[k].energy = 0

\* C1: whenever the goal is reachable from the start through legal cells,
\* find_path returns a path whose number of steps is the breadth-first
\* shortest-path length, which on an obstacle-free grid is the Manhattan
\* distance of the two points.
C1_PathOptimal ==
    (phase = "find_path" /\ search.status \in {"found", "none"} /\ PathBfs >= 0)
        => /\ search.status = "found"
           /\ Len(search.path) - 1 = PathBfs
           /\ PathObstacleFree =>
                 Len(search.path) - 1 =
                     Heuristic(PathStart[1], PathStart[2], search.goal[1], search.goal[2])

\* a run that found a path which had to go around something
C1_Witness ==
    /\ phase = "find_path"
    /\ search.status = "found"
    /\ Len(search.path) - 1 = PathBfs
    /\ PathBfs > Heuristic(PathStart[1], PathStart[2], search.goal[1], search.goal[2])

C23_PathWellFormed ==
    (phase = "find_path" /\ search.status = "found")
        => LET path == search.path
               other_robots == OtherRobots(robots, 1)
           IN  /\ Len(path) >= 1
               /\ path[1] = PathStart
               /\ path[Len(path)] = search.goal
               /\ \A k \in 1 .. Len(path) - 1 : path[k + 1] \in Adjacent4(path[k])
               /\ \A j, k \in 1 .. Len(path) : path[j] = path[k] => j = k
               /\ \A k \in 2 .. Len(path) : LegalCell(path[k], map, other_robots)
               /\ (search.goal = PathStart) => (path = <<PathStart>>)
               /\ (search.goal # PathStart) => LegalCell(search.goal, map, other_robots)

\* a path of four steps was returned that runs over the cell of a robot
\* without energy and around an obstacle
C23_Witness ==
    /\ phase = "find_path" /\ search.status = "found"
    /\ Len(search.path) = 5
    /\ robots[2].energy = 0
    /\ \E k \in 2 .. 4 : search.path[k] = <<robots[2].x, robots[2].y>>
    /\ Heuristic(PathStart[1], PathStart[2], search.goal[1], search.goal[2]) = 2

-----------------------------------------------------------------------------
(* The maps and robots the specifications OpSpec and Spec start from *)

\* the map of the given size and cell types, nothing explored
MapOf(w, h, cell_types) ==
    [width |-> w, height |-> h,
     cells |-> [p \in Positions(w, h) |-> NewCell(cell_types[p])]]

\* main.rs lines 30-31: the station is put in the middle of the map
StationX == MapW \div 2
StationY == MapH \div 2

ENERGY_DEPOSIT == 50
MINERAL_DEPOSIT == 20

\* no obstacle, no resource
OpenMap == MapOf(MapW, MapH, [p \in Positions(MapW, MapH) |-> Empty])

\* one resource of each kind and one obstacle, in the corners
RichMap ==
    MapOf(MapW, MapH,
          [p \in Positions(MapW, MapH) |->
              CASE p = <<0, 0>> -> Energy(ENERGY_DEPOSIT)
                [] p = <<MapW - 1, 0>> -> Mineral(MINERAL_DEPOSIT)
                [] p = <<MapW - 1, MapH - 1>> -> SciencePoint
                [] p = <<0, MapH - 1>> -> Obstacle
                [] OTHER -> Empty])

\* the corner (0, 0) closed by two obstacles
PocketMap ==
    MapOf(MapW, MapH,
          [p \in Positions(MapW, MapH) |->
              IF p \in {<<1, 0>>, <<0, 1>>} THEN Obstacle ELSE Empty])

\* obstacles everywhere but on the station
WalledMap ==
    MapOf(MapW, MapH,
          [p \in Positions(MapW, MapH) |->
              IF p = <<StationX, StationY>> THEN Empty ELSE Obstacle])

\* a robot in the middle of a run: some energy, some cargo, some count of steps
RobotAt(p, robot_type, energy, cargo, steps) ==
    [NewWithType(p[1], p[2], robot_type) EXCEPT
        !.energy = energy,
        !.minerals = cargo[1],
        !.science_points = cargo[2],
        !.steps_since_last_find = steps]

\* the station in the middle of a run: some energy left
StationWith(energy) == [NewStation(StationX, StationY) EXCEPT !.energy = energy]

-----------------------------------------------------------------------------
(* PathLiveSpec: find_path as in PathSpec, on the map with the closed corner
   and the map where the station is walled in, the other robot on the
   station or in the corner opposite to (0, 0).
   find_path runs to its end without waiting for anything: an iteration of
   its loop that can be taken is taken. *)

PathLiveInit ==
    /\ map \in {PocketMap, WalledMap}
    /\ \E start \in Positions(MapW, MapH),
          other \in {<<StationX, StationY>>, <<MapW - 1, MapH - 1>>},
          e \in {0, INITIAL_ROBOT_ENERGY} :
          /\ map.cells[start].cell_type.kind # "Obstacle"
          /\ map.cells[other].cell_type.kind # "Obstacle"
          /\ robots = << NewWithType(start[1], start[2], "Explorer"),
                        [NewWithType(other[1], other[2], "Explorer") EXCEPT !.energy = e] >>
    /\ \E goal \in Positions(MapW, MapH) :
          search = FindPathStart(robots[1].x, robots[1].y, goal[1], goal[2])
    /\ replay = search
    /\ station = NoStation
    /\ phase = "find_path"
    /\ idx = 0
    /\ ticks = 0
    /\ ev = NoEvent

PathLiveSpec == PathLiveInit /\ [][PathNext]_vars /\ WF_vars(PathStep)

\* C24: every run of find_path ends.  It ends with no path exactly when the
\* goal cannot be reached from the start through legal cells (cells of the
\* map that are no Obstacle and hold no other robot with energy), the start
\* itself counting as reached.  A run, with or without a path at its end,
\* changes neither the robots nor the map nor the station.
C24_PathTerminates ==
    /\ <>(search.status \in {"found", "none"})
    /\ [](search.status \in {"found", "none"}
             => ((search.status = "none") <=> (PathBfs < 0)))
    /\ [][map' = map /\ robots' = robots /\ station' = station]_vars

\* a run ended without a path to a goal that is a free cell: obstacles and a
\* robot with energy close the way
C24_Witness ==
    /\ phase = "find_path" /\ search.status = "none"
    /\ LegalCell(search.goal, map, OtherRobots(robots, 1))
    /\ robots[2].energy > 0
    /\ \E p \in Adjacent4(PathStart) :
          p = <<robots[2].x, robots[2].y>> /\ map.cells[p].cell_type = Empty

-----------------------------------------------------------------------------
(* OpSpec: the operations of robot.rs on robots[1] and the two steps main
   takes on one robot (station interaction, respawn), in any order.  robots[2]
   is an active robot standing on the station. *)

MaxOps == 2

\* energy and cargo of robots[1] at the start: out of energy, nearly so, as
\* created, and loaded with what RichMap holds
OpLoads ==
    { <<0, <<0, 0>>>>, <<2, <<0, 0>>>>, <<INITIAL_ROBOT_ENERGY, <<0, 0>>>>,
      <<INITIAL_ROBOT_ENERGY + ENERGY_DEPOSIT, <<MINERAL_DEPOSIT, 1>>>> }

OpInit ==
    /\ map \in {OpenMap, RichMap}
    /\ \E p \in Positions(MapW, MapH), robot_type \in RobotTypes, load \in OpLoads :
          robots = << RobotAt(p, robot_type, load[1], load[2], 0),
                      NewWithType(StationX, StationY, "Explorer") >>
    /\ station \in {StationWith(INITIAL_ROBOT_ENERGY \div 2), StationWith(STATION_START_ENERGY)}
    /\ phase = "api"
    /\ idx = 1
    /\ ticks = 0
    /\ ev = NoEvent
    /\ search = NoSearch
    /\ replay = NoSearch

OpMoveInDirection ==
    /\ phase = "api" /\ ticks < MaxOps
    /\ \E direction \in {"North", "East", "South", "West"} :
          LET out == MoveInDirection(robots[1], direction, map, OtherRobots(robots, 1))
          IN  /\ robots' = [robots EXCEPT ![1] = out.robot]
              /\ ev' = [op |-> "move_in_direction", direction |-> direction, ok |-> out.ok]
    /\ ticks' = ticks + 1
    /\ UNCHANGED <<map, station, phase, idx, search, replay>>

OpCollectResource ==
    /\ phase = "api" /\ ticks < MaxOps
    /\ LET out == CollectResource(robots[1], map)
       IN  /\ robots' = [robots EXCEPT ![1] = out.robot]
           /\ map' = out.map
           /\ ev' = [op |-> "collect_resource", ok |-> out.ok]
    /\ ticks' = ticks + 1
    /\ UNCHANGED <<station, phase, idx, search, replay>>

OpExplore ==
    /\ phase = "api" /\ ticks < MaxOps
    /\ LET out == Explore(robots[1], map)
       IN  /\ robots' = [robots EXCEPT ![1] = out.robot]
           /\ map' = out.map
           /\ ev' = [op |-> "explore", ok |-> out.ok]
    /\ ticks' = ticks + 1
    /\ UNCHANGED <<station, phase, idx, search, replay>>

OpUnloadPayload ==
    /\ phase = "api" /\ ticks < MaxOps
    /\ LET out == UnloadPayload(robots[1])
       IN  /\ robots' = [robots EXCEPT ![1] = out.robot]
           /\ ev' = [op |-> "unload_payload", payload |-> out.payload]
    /\ ticks' = ticks + 1
    /\ UNCHANGED <<map, station, phase, idx, search, replay>>

OpGetExplorationUpdates ==
    /\ phase = "api" /\ ticks < MaxOps
    /\ LET out == GetExplorationUpdates(robots[1])
       IN  /\ robots' = [robots EXCEPT ![1] = out.robot]
           /\ ev' = [op |-> "get_exploration_updates", updates |-> out.updates]
    /\ ticks' = ticks + 1
    /\ UNCHANGED <<map, station, phase, idx, search, replay>>

OpTryUnstuck ==
    /\ phase = "api" /\ ticks < MaxOps
    /\ LET out == TryUnstuck(robots[1], map, OtherRobots(robots, 1))
       IN  /\ robots' = [robots EXCEPT ![1] = out.robot]
           /\ ev' = [op |-> "try_unstuck", teleported |-> out.teleported]
    /\ ticks' = ticks + 1
    /\ UNCHANGED <<map, station, phase, idx, search, replay>>

OpAutonomousUpdate ==
    /\ phase = "api" /\ ticks < MaxOps
    /\ \E out \in AutonomousUpdate(robots[1], map, station.x, station.y,
                                    OtherRobots(robots, 1)) :
          /\ robots' = [robots EXCEPT ![1] = out.robot]
          /\ map' = out.map
          /\ ev' = [op |-> "autonomous_update", log |-> out.log]
    /\ ticks' = ticks + 1
    /\ UNCHANGED <<station, phase, idx, search, replay>>

\* main.rs lines 173-203 for robots[1]
OpInteractAtStation ==
    /\ phase = "api" /\ ticks < MaxOps
    /\ robots[1].x = station.x /\ robots[1].y = station.y
    /\ LET out == InteractAtStation(station, robots[1])
       IN  /\ robots' = [robots EXCEPT ![1] = out.robot]
           /\ station' = out.station
           /\ ev' = [op |-> "interact", payload |-> out.payload, refueled |-> out.refueled]
    /\ ticks' = ticks + 1
    /\ UNCHANGED <<map, phase, idx, search, replay>>

\* main.rs lines 207-219 for robots[1]
OpRespawnDead ==
    /\ phase = "api" /\ ticks < MaxOps
    /\ robots[1].energy = 0
    /\ LET out == RespawnDead(station, robots[1])
       IN  /\ robots' = [robots EXCEPT ![1] = out.robot]
           /\ station' = out.station
           /\ ev' = [op |-> "respawn", refueled |-> out.refueled]
    /\ ticks' = ticks + 1
    /\ UNCHANGED <<map, phase, idx, search, replay>>

OpNext ==
    \/ OpMoveInDirection
    \/ OpCollectResource
    \/ OpExplore
    \/ OpUnloadPayload
    \/ OpGetExplorationUpdates
    \/ OpTryUnstuck
    \/ OpAutonomousUpdate
    \/ OpInteractAtStation
    \/ OpRespawnDead

OpSpec == OpInit /\ [][OpNext]_vars

-----------------------------------------------------------------------------
(* Claims about the operations on one robot (OpSpec) *)

\* C3: unload_payload returns a triple that, added to what the robot holds
\* afterwards, gives what it held before (energy, minerals, science points);
\* afterwards the robot holds no minerals, no science points and the lesser
\* of its former energy and the baseline 100.
C3_PayloadConservation ==
    [][ev'.op = "unload_payload" =>
         LET pre == robots[1]
             post == robots'[1]
             payload == ev'.payload
         IN  /\ payload[1] + post.energy = pre.energy
             /\ payload[2] + post.minerals = pre.minerals
             /\ payload[3] + post.science_points = pre.science_points
             /\ post.minerals = 0
             /\ post.science_points = 0
             /\ post.energy = IF pre.energy < 100 THEN pre.energy ELSE 100]_vars

\* a robot that came with energy above the baseline and with cargo has unloaded
C3_Witness ==
    /\ ev.op = "unload_payload"
    /\ ev.payload[1] > 0 /\ ev.payload[2] > 0 /\ ev.payload[3] > 0
    /\ robots[1].energy = 100

\* C5: the energy of every robot is at least 0 whatever sequence of moves,
\* teleports, extractions, unloads, refuels and respawns it went through; a
\* step taken with energy 0 and a teleport taken with energy below 3 leave
\* the energy at 0.
C5_EnergyNonNegative ==
    /\ [](\A i \in 1 .. Len(robots) : robots[i].energy >= 0)
    /\ [][((ev'.op = "move_in_direction" /\ ev'.ok /\ robots[1].energy = 0)
               => (robots'[1].energy = 0))
           /\
           ((ev'.op = "try_unstuck" /\ ev'.teleported /\ robots[1].energy < 3)
               => (robots'[1].energy = 0))]_vars

\* a robot out of energy after a teleport it could not pay in full
C5_Witness ==
    /\ ev.op = "try_unstuck" /\ ev.teleported
    /\ robots[1].energy = 0
    /\ ticks = MaxOps

\* C6: collect_resource on an Energy(a) cell adds a to the energy of the robot,
\* on a Mineral(a) cell a to its minerals, on a SciencePoint cell 1 to its
\* science points; the cell becomes Empty and nothing else of the robot
\* changes.  On an Empty or an Obstacle cell it returns false and changes
\* neither the robot nor the map.  This holds for a robot of any type.
C6_Extraction ==
    [][ev'.op = "collect_resource" =>
         LET pre == robots[1]
             post == robots'[1]
             here == <<pre.x, pre.y>>
             ct == map.cells[here].cell_type
             emptied == [map EXCEPT !.cells[here].cell_type = Empty]
         IN  /\ (ct.kind = "Energy") =>
                   (ev'.ok /\ map' = emptied
                      /\ post = [pre EXCEPT !.energy = @ + ct.amount])
             /\ (ct.kind = "Mineral") =>
                   (ev'.ok /\ map' = emptied
                      /\ post = [pre EXCEPT !.minerals = @ + ct.amount])
             /\ (ct.kind = "SciencePoint") =>
                   (ev'.ok /\ map' = emptied
                      /\ post = [pre EXCEPT !.science_points = @ + 1])
             /\ (ct.kind \in {"Empty", "Obstacle"}) =>
                   (~ ev'.ok /\ map' = map /\ post = pre)]_vars

\* an Explorer with energy 100 has extracted an Energy(50) cell
C6_Witness ==
    /\ ev.op = "collect_resource" /\ ev.ok
    /\ robots[1].robot_type = "Explorer"
    /\ robots[1].energy = 150
    /\ map.cells[<<robots[1].x, robots[1].y>>].cell_type = Empty
    /\ RichMap.cells[<<robots[1].x, robots[1].y>>].cell_type = Energy(ENERGY_DEPOSIT)

-----------------------------------------------------------------------------
(* StationSpec: the operations of station.rs, in any order, from stations
   whose ledger, known map and robots lie around the thresholds the code
   compares them with. *)

MaxStationOps == 1

Repeat(v, n) == [k \in 1 .. n |-> v]

\* a known map with the given numbers of entries of each sort; zero stands for
\* the number of Energy(0) and of Mineral(0) entries
KnownMapOf(energy_n, mineral_n, science_n, zero_n, empty_n) ==
    LET values == Repeat(Energy(ENERGY_DEPOSIT), energy_n)
                      \o Repeat(Mineral(MINERAL_DEPOSIT), mineral_n)
                      \o Repeat(SciencePoint, science_n)
                      \o Repeat(Energy(0), zero_n) \o Repeat(Mineral(0), zero_n)
                      \o Repeat(Empty, empty_n)
    IN  [p \in { <<k - 1, 0>> : k \in 1 .. Len(values) } |-> values[p[1] + 1]]

\* robots of the given numbers of each type
FleetOf(explorers, energy_collectors, mineral_collectors, scientists) ==
    Repeat(NewWithType(0, 0, "Explorer"), explorers)
        \o Repeat(NewWithType(0, 0, "EnergyCollector"), energy_collectors)
        \o Repeat(NewWithType(0, 0, "MineralCollector"), mineral_collectors)
        \o Repeat(NewWithType(0, 0, "Scientist"), scientists)

StationFleets ==
    { FleetOf(e, c[1], c[2], c[3]) :
        e \in 0 .. 2,
        c \in {<<0, 0, 0>>, <<2, 0, 0>>, <<0, 2, 0>>, <<0, 0, 1>>, <<2, 2, 1>>} }
    \cup { FleetOf(MAX_ROBOT_COUNT - 1, 0, 0, 0), FleetOf(MAX_ROBOT_COUNT, 0, 0, 0) }

StationInit ==
    /\ \E energy \in {99, 100, 299, 300, 399, 400}, minerals \in {49, 50, 149, 150},
          energy_n \in 0 .. 2, mineral_n \in 0 .. 2, science_n \in 0 .. 1,
          zero_n \in 0 .. 1, empty_n \in {0, 10, 11} :
          station = [StationWith(energy) EXCEPT
                        !.minerals = minerals,
                        !.known_map = KnownMapOf(energy_n, mineral_n, science_n,
                                                 zero_n, empty_n)]
    /\ robots \in StationFleets
    /\ map = OpenMap
    /\ phase = "station_api"
    /\ idx = 1
    /\ ticks = 0
    /\ ev = NoEvent
    /\ search = NoSearch
    /\ replay = NoSearch

StShouldCreateRobot ==
    /\ phase = "station_api" /\ ticks < MaxStationOps
    /\ ev' = [op |-> "should_create_robot", ret |-> ShouldCreateRobot(station, robots)]
    /\ ticks' = ticks + 1
    /\ UNCHANGED <<map, station, robots, phase, idx, search, replay>>

StChooseRobotType ==
    /\ phase = "station_api" /\ ticks < MaxStationOps
    /\ ev' = [op |-> "choose_robot_type", ret |-> ChooseRobotType(station, robots)]
    /\ ticks' = ticks + 1
    /\ UNCHANGED <<map, station, robots, phase, idx, search, replay>>

StCreateRobot ==
    /\ phase = "station_api" /\ ticks < MaxStationOps
    /\ \E p \in {<<0, 0>>, <<MapW - 1, MapH - 1>>} :
          LET out == CreateRobot(station, robots, p[1], p[2])
          IN  /\ station' = out.station
              /\ robots' = out.robots
              /\ ev' = [op |-> "create_robot", ok |-> out.ok, x |-> p[1], y |-> p[2]]
    /\ ticks' = ticks + 1
    /\ UNCHANGED <<map, phase, idx, search, replay>>

StConsumeResources ==
    /\ phase = "station_api" /\ ticks < MaxStationOps
    /\ LET out == ConsumeResources(station, ROBOT_ENERGY_COST, ROBOT_MINERAL_COST)
       IN  /\ station' = out.station
           /\ ev' = [op |-> "consume_resources", ok |-> out.ok]
    /\ ticks' = ticks + 1
    /\ UNCHANGED <<map, robots, phase, idx, search, replay>>

StCollectResources ==
    /\ phase = "station_api" /\ ticks < MaxStationOps
    /\ \E payload \in {<<0, 0, 1>>, <<ENERGY_DEPOSIT, MINERAL_DEPOSIT, 0>>} :
          /\ station' = CollectResources(station, payload[1], payload[2], payload[3])
          /\ ev' = [op |-> "collect_resources", payload |-> payload]
    /\ ticks' = ticks + 1
    /\ UNCHANGED <<map, robots, phase, idx, search, replay>>

StShareData ==
    /\ phase = "station_api" /\ ticks < MaxStationOps
    /\ \E data \in { << <<<<0, 0>>, Empty>> >>,
                      << <<<<0, 0>>, Energy(ENERGY_DEPOSIT)>>, <<<<0, 1>>, SciencePoint>> >>,
                      << <<<<0, 1>>, Mineral(MINERAL_DEPOSIT)>>, <<<<0, 1>>, Empty>> >>,
                      << <<<<0, 0>>, SciencePoint>>, <<<<1, 0>>, Empty>>,
                         <<<<0, 0>>, Mineral(MINERAL_DEPOSIT)>> >> } :
          /\ station' = ShareData(station, data)
          /\ ev' = [op |-> "share_data", data |-> data]
    /\ ticks' = ticks + 1
    /\ UNCHANGED <<map, robots, phase, idx, search, replay>>

StationNext ==
    \/ StShouldCreateRobot
    \/ StChooseRobotType
    \/ StCreateRobot
    \/ StConsumeResources
    \/ StCollectResources
    \/ StShareData

StationSpec == StationInit /\ [][StationNext]_vars

-----------------------------------------------------------------------------
(* Claims about the station (StationSpec) *)

\* the known-map entries that hold a value of the given set of cell types
KnownEntries(kinds, least_amount) ==
    { p \in DOMAIN station.known_map :
        station.known_map[p].kind \in kinds /\ station.known_map[p].amount >= least_amount }

\* C7: should_create_robot returns true exactly when there are fewer than 12
\* robots, the station holds at least 400 energy and at least 150 minerals, and
\* at least 2 entries of the known map are Energy(n > 0), Mineral(n > 0) or
\* SciencePoint; it changes neither the station nor its robots.
C7_ShouldCreateRobot ==
    [][ev'.op = "should_create_robot" =>
         /\ ev'.ret <=>
               /\ Len(robots) < 12
               /\ station.energy >= 400
               /\ station.minerals >= 150
               /\ Cardinality(KnownEntries({"Energy", "Mineral"}, 1)
                                \cup KnownEntries({"SciencePoint"}, 0)) >= 2
         /\ station' = station
         /\ robots' = robots]_vars

\* the answer is true with every condition at its threshold
C7_Witness ==
    /\ ev.op = "should_create_robot" /\ ev.ret
    /\ Len(robots) = 11 /\ station.energy = 400 /\ station.minerals = 150
    /\ Cardinality(KnownEntries({"Energy", "Mineral", "SciencePoint"}, 0)) = 4
    /\ Cardinality(KnownEntries({"Energy", "Mineral"}, 1)
                     \cup KnownEntries({"SciencePoint"}, 0)) = 2

\* C9: create_robot(x, y) returns true exactly when the station holds at least
\* 100 energy and 50 minerals.  Then the ledger drops by 100 energy and 50
\* minerals and one robot is appended, at (x, y), with energy 100, no cargo, no
\* pending updates, stuck counter 0, state Exploring.  Otherwise the ledger,
\* the known map and the robots are unchanged.
C9_CreateRobot ==
    [][ev'.op = "create_robot" =>
         /\ ev'.ok <=> (station.energy >= 100 /\ station.minerals >= 50)
         /\ ev'.ok =>
               /\ station' = [station EXCEPT !.energy = @ - 100, !.minerals = @ - 50]
               /\ Len(robots') = Len(robots) + 1
               /\ SubSeq(robots', 1, Len(robots)) = robots
               /\ \E robot_type \in RobotTypes :
                     robots'[Len(robots')] =
                         [x |-> ev'.x, y |-> ev'.y, energy |-> 100, minerals |-> 0,
                          science_points |-> 0, pending_exploration_updates |-> <<>>,
                          robot_type |-> robot_type, state |-> "Exploring",
                          target_x |-> <<>>, target_y |-> <<>>,
                          steps_since_last_find |-> 0]
         /\ ~ ev'.ok => (station' = station /\ robots' = robots)]_vars

\* a robot was created with the last 100 energy and 50 minerals of the station
C9_Witness ==
    /\ ev.op = "create_robot" /\ ev.ok
    /\ station.energy = 0 /\ station.minerals = 0
    /\ robots[Len(robots)].x = MapW - 1 /\ robots[Len(robots)].y = MapH - 1

\* the type the priority chain gives for a station and its robots
ChainType(energy, fleet) ==
    LET Count(robot_type) == Cardinality({ k \in 1 .. Len(fleet) : fleet[k].robot_type = robot_type })
        energy_n == Cardinality(KnownEntries({"Energy"}, 1))
        mineral_n == Cardinality(KnownEntries({"Mineral"}, 1))
        science_n == Cardinality(KnownEntries({"SciencePoint"}, 0))
        empty_n == Cardinality(KnownEntries({"Empty"}, 0))
    IN  CASE Count("Explorer") = 0 \/ (empty_n > 10 /\ Count("Explorer") < 2) -> "Explorer"
          [] OTHER ->
        CASE energy < 300 /\ energy_n >= 1 /\ Count("EnergyCollector") < 2 -> "EnergyCollector"
          [] OTHER ->
        CASE mineral_n > energy_n /\ Count("MineralCollector") < 2 -> "MineralCollector"
          [] OTHER ->
        CASE science_n >= 1 /\ Count("Scientist") = 0 -> "Scientist"
          [] OTHER -> "Explorer"

\* C10: choose_robot_type follows the priority chain: Explorer if there is no
\* Explorer, or if more than 10 known entries are Empty and there are fewer
\* than 2 Explorers; else EnergyCollector if the station energy is below 300,
\* a positive Energy source is known and there are fewer than 2 of them; else
\* MineralCollector if the known positive Mineral sources outnumber the known
\* positive Energy sources and there are fewer than 2 of them; else Scientist
\* if a SciencePoint is known and there is no Scientist; else Explorer.
\* create_robot gives the new robot the type chosen for the station it has
\* just charged.
C10_ChooseRobotType ==
    [][/\ (ev'.op = "choose_robot_type") => (ev'.ret = ChainType(station.energy, robots))
       /\ (ev'.op = "create_robot" /\ ev'.ok) =>
             (robots'[Len(robots')].robot_type = ChainType(station.energy - 100, robots))]_vars

\* a Scientist was chosen: every earlier rule of the chain was passed over
C10_Witness ==
    /\ ev.op = "choose_robot_type" /\ ev.ret = "Scientist"
    /\ Cardinality(KnownEntries({"Mineral"}, 1)) > Cardinality(KnownEntries({"Energy"}, 1))
    /\ station.energy = 299

\* C11: share_data(updates) is last-write-wins.  Afterwards every position
\* named in updates maps to the cell type of the last update that names it,
\* whatever the known map held for it before; every other position keeps its
\* entry (or stays without one); the ledger, the position of the station and
\* the robots are unchanged.
C11_ShareDataLastWriteWins ==
    [][ev'.op = "share_data" =>
         LET data == ev'.data
             named == { data[k][1] : k \in 1 .. Len(data) }
             last == [p \in named |->
                        CHOOSE k \in 1 .. Len(data) :
                            /\ data[k][1] = p
                            /\ \A j \in k + 1 .. Len(data) : data[j][1] # p]
         IN  /\ DOMAIN station'.known_map = DOMAIN station.known_map \cup named
             /\ \A p \in named : station'.known_map[p] = data[last[p]][2]
             /\ \A p \in DOMAIN station.known_map \ named :
                    station'.known_map[p] = station.known_map[p]
             /\ station' = [station EXCEPT !.known_map = station'.known_map]
             /\ robots' = robots]_vars

\* three updates, two of them for (0, 0), came to a station that knew (0, 0)
\* as an Energy source (its third entry is a Mineral source, so its first one
\* was an Energy source): (0, 0) holds what the last update said
C11_Witness ==
    /\ ev.op = "share_data" /\ Len(ev.data) = 3
    /\ ev.data[1][1] = <<0, 0>> /\ ev.data[3][1] = <<0, 0>>
    /\ station.known_map[<<0, 0>>] = ev.data[3][2]
    /\ station.known_map[<<0, 0>>] # ev.data[1][2]
    /\ station.known_map[<<1, 0>>] = Empty
    /\ <<2, 0>> \in DOMAIN station.known_map
    /\ station.known_map[<<2, 0>>] = Mineral(MINERAL_DEPOSIT)

\* C31: when create_robot is called on a station for which
\* should_create_robot is true, it succeeds, the station keeps at least 300
\* energy after paying 100, and the robot it appends is not an EnergyCollector.
C31_NoEnergyCollectorWhenGated ==
    [][(ev'.op = "create_robot" /\ ShouldCreateRobot(station, robots))
          => /\ ev'.ok
             /\ station'.energy = station.energy - ROBOT_ENERGY_COST
             /\ station'.energy >= 300
             /\ Len(robots') = Len(robots) + 1
             /\ robots'[Len(robots')].robot_type # "EnergyCollector"]_vars

\* a robot was created by a station that held just what should_create_robot
\* asks for, 400 energy and 150 minerals, and that knows an energy source and
\* has an Explorer and no EnergyCollector: with less than 300 energy left the
\* new robot would have been an EnergyCollector
C31_Witness ==
    /\ ev.op = "create_robot" /\ ev.ok
    /\ station.energy = 300
    /\ station.minerals = ROBOT_CREATION_MINERAL_BUFFER
    /\ KnownUntappedValuableCells(station) >= MIN_KNOWN_UNTAPPED_VALUABLE_CELLS_FOR_NEW_ROBOT
    /\ EnergySources(station) > 0
    /\ Len(robots) <= MAX_ROBOT_COUNT
    /\ EmptyCells(station) = 0
    /\ CountType(SubSeq(robots, 1, Len(robots) - 1), "Explorer") = 1
    /\ CountType(SubSeq(robots, 1, Len(robots) - 1), "EnergyCollector") = 0
    /\ robots[Len(robots)].robot_type # "EnergyCollector"

-----------------------------------------------------------------------------
(* Spec: the loop of main, from a tick boundary in the middle of a run.  One
   step is one iteration of one of its three loops over the robots (update,
   station interaction, respawn) or the creation step that ends the tick.
   There are two robots; robots[2] is an Explorer that starts on the station. *)

MaxTicks == 2

\* energy, state and stuck counter of a robot at the start of a tick: as
\* created, stuck for five ticks, on its way back with one unit of energy
\* left (after no or five failed steps), and out of energy on its way back
StartProfiles ==
    { [energy |-> INITIAL_ROBOT_ENERGY, state |-> "Exploring", steps |-> 0],
      [energy |-> INITIAL_ROBOT_ENERGY, state |-> "Exploring", steps |-> 5],
      [energy |-> 1, state |-> "ReturningToStation", steps |-> 0],
      [energy |-> 1, state |-> "ReturningToStation", steps |-> 5],
      [energy |-> 0, state |-> "ReturningToStation", steps |-> 0] }

StartRobot(p, robot_type, profile) ==
    [RobotAt(p, robot_type, profile.energy, <<0, 0>>, profile.steps) EXCEPT
        !.state = profile.state,
        !.target_x = IF profile.state = "ReturningToStation" THEN <<StationX>> ELSE <<>>,
        !.target_y = IF profile.state = "ReturningToStation" THEN <<StationY>> ELSE <<>>]

Init ==
    /\ map \in {OpenMap, RichMap, PocketMap, WalledMap,
                [WalledMap EXCEPT !.cells[<<StationX, StationY>>].cell_type =
                                      Mineral(MINERAL_DEPOSIT)]}
    /\ \E p \in Positions(MapW, MapH), robot_type \in RobotTypes,
          profile \in StartProfiles, other \in StartProfiles :
          /\ map.cells[p].cell_type # Obstacle
          /\ other.steps = 0
          /\ other.energy \in {0, INITIAL_ROBOT_ENERGY}
          /\ robots = << StartRobot(p, robot_type, profile),
                        StartRobot(<<StationX, StationY>>, "Explorer", other) >>
    /\ station \in { StationWith(INITIAL_ROBOT_ENERGY \div 2),
                      StationWith(INITIAL_ROBOT_ENERGY + INITIAL_ROBOT_ENERGY \div 2),
                      StationWith(STATION_START_ENERGY) }
    /\ phase = "update"
    /\ idx = 1
    /\ ticks = 0
    /\ ev = NoEvent
    /\ search = NoSearch
    /\ replay = NoSearch

\* the loop index and the phase after iteration idx of the loop of phase
NextIdx == IF idx >= Len(robots) THEN 1 ELSE idx + 1

PhaseAfter(next_phase) == IF idx >= Len(robots) THEN next_phase ELSE phase

\* lines 162-170: autonomous_update of robot idx.  The event keeps the copies
\* of the other robots the update was given and, for the loop this iteration
\* belongs to, the robots as they were when the loop began (at_start) and as
\* each update so far has left them (updated).
UpdateRobot ==
    /\ phase = "update" /\ idx <= Len(robots)
    /\ ticks < MaxTicks
    /\ LET other_robots == OtherRobots(robots, idx)
       IN  \E out \in AutonomousUpdate(robots[idx], map, station.x, station.y,
                                        other_robots) :
              /\ robots' = [robots EXCEPT ![idx] = out.robot]
              /\ map' = out.map
              /\ ev' = [op |-> "update", robot |-> idx, log |-> out.log,
                        other_robots |-> other_robots,
                        at_start |-> IF idx = 1 THEN robots ELSE ev.at_start,
                        updated |-> IF idx = 1 THEN <<out.robot>>
                                    ELSE Append(ev.updated, out.robot)]
    /\ idx' = NextIdx
    /\ phase' = PhaseAfter("interact")
    /\ UNCHANGED <<station, ticks, search, replay>>

\* lines 173-203: robot idx stands on the station
InteractRobot ==
    /\ phase = "interact" /\ idx <= Len(robots)
    /\ robots[idx].x = station.x /\ robots[idx].y = station.y
    /\ LET out == InteractAtStation(station, robots[idx])
       IN  /\ robots' = [robots EXCEPT ![idx] = out.robot]
           /\ station' = out.station
           /\ ev' = [op |-> "interact", robot |-> idx, payload |-> out.payload,
                     updates |-> out.updates, refueled |-> out.refueled]
    /\ idx' = NextIdx
    /\ phase' = PhaseAfter("respawn")
    /\ UNCHANGED <<map, ticks, search, replay>>

\* lines 173-179: robot idx is elsewhere
PassRobot ==
    /\ phase = "interact" /\ idx <= Len(robots)
    /\ ~ (robots[idx].x = station.x /\ robots[idx].y = station.y)
    /\ ev' = [op |-> "pass", robot |-> idx]
    /\ idx' = NextIdx
    /\ phase' = PhaseAfter("respawn")
    /\ UNCHANGED <<map, station, robots, ticks, search, replay>>

\* lines 207-219: robot idx is out of energy
RespawnRobot ==
    /\ phase = "respawn" /\ idx <= Len(robots)
    /\ robots[idx].energy = 0
    /\ LET out == RespawnDead(station, robots[idx])
       IN  /\ robots' = [robots EXCEPT ![idx] = out.robot]
           /\ station' = out.station
           /\ ev' = [op |-> "respawn", robot |-> idx, refueled |-> out.refueled]
    /\ idx' = NextIdx
    /\ phase' = PhaseAfter("create")
    /\ UNCHANGED <<map, ticks, search, replay>>

\* lines 207-208: robot idx has energy
KeepRobot ==
    /\ phase = "respawn" /\ idx <= Len(robots)
    /\ robots[idx].energy # 0
    /\ ev' = [op |-> "keep", robot |-> idx]
    /\ idx' = NextIdx
    /\ phase' = PhaseAfter("create")
    /\ UNCHANGED <<map, station, robots, ticks, search, replay>>

\* lines 222-231, the end of the tick
CreateStep ==
    /\ phase = "create"
    /\ LET out == CreationStep(station, robots, map)
       IN  /\ station' = out.station
           /\ robots' = out.robots
           /\ ev' = [op |-> "create", created |-> out.created]
    /\ phase' = "update"
    /\ idx' = 1
    /\ ticks' = ticks + 1
    /\ UNCHANGED <<map, search, replay>>

Next ==
    \/ UpdateRobot
    \/ InteractRobot
    \/ PassRobot
    \/ RespawnRobot
    \/ KeepRobot
    \/ CreateStep

Spec == Init /\ [][Next]_vars

-----------------------------------------------------------------------------
(* Claims about the loop of main (Spec) *)

\* C4: when the respawn loop handles a robot with energy 0, the robot is put
\* on the station cell; its energy becomes 100 exactly when the station holds
\* at least 100 energy at that moment, and then the station pays exactly 100;
\* otherwise the robot keeps energy 0 and the station keeps its energy.
C4_RespawnCorrect ==
    [][ev'.op = "respawn" =>
         LET i == ev'.robot
             pre == robots[i]
             post == robots'[i]
         IN  /\ pre.energy = 0
             /\ post.x = station.x /\ post.y = station.y
             /\ (post.energy = 100) <=> (station.energy >= 100)
             /\ (station.energy >= 100) => (station'.energy = station.energy - 100)
             /\ (station.energy < 100) =>
                   (post.energy = 0 /\ station'.energy = station.energy)]_vars

\* two robots out of energy and a station that could pay for one of them:
\* the first is refuelled, the second is not
C4_Witness ==
    /\ ev.op = "respawn" /\ ev.robot = 2 /\ ~ ev.refueled
    /\ robots[1].energy = 100 /\ robots[2].energy = 0
    /\ \A i \in 1 .. 2 : robots[i].x = station.x /\ robots[i].y = station.y
    /\ station.energy = 50

\* C8 as stated: the stuck counter of a robot goes back to 0 only when the
\* long-range scan of that robot has relocated it.
C8_ResetOnlyByScan ==
    [][\A i \in 1 .. Len(robots) :
         (robots[i].steps_since_last_find > 0 /\ robots'[i].steps_since_last_find = 0)
             => (ev'.op = "update" /\ ev'.robot = i /\ ev'.log.teleported)]_vars

\* C8, amended: the stuck counter of a robot goes back to 0 only when its
\* long-range scan has relocated it, when its scored step has landed on an
\* Energy, Mineral or SciencePoint cell, or when the respawn loop has handled
\* it; in any other step the counter does not decrease, and it grows by at
\* most 1.
C8_ResetOnlyByScanFindOrRespawn ==
    [][\A i \in 1 .. Len(robots) :
         LET before == robots[i].steps_since_last_find
             after == robots'[i].steps_since_last_find
         IN  /\ (after < before) =>
                   /\ after = 0
                   /\ \/ ev'.op = "update" /\ ev'.robot = i /\ ev'.log.teleported
                      \/ /\ ev'.op = "update" /\ ev'.robot = i
                         /\ ev'.log.move = "scored" /\ ev'.log.found
                         /\ map.cells[<<robots'[i].x, robots'[i].y>>].cell_type.kind
                                \in {"Energy", "Mineral", "SciencePoint"}
                      \/ ev'.op = "respawn" /\ ev'.robot = i
             /\ after <= before + 1]_vars

\* a counter above 0 went back to 0 by a step onto a resource, without a scan
C8_Witness ==
    /\ ev.op = "update" /\ ev.log.found /\ ~ ev.log.unstuck
    /\ robots[ev.robot].steps_since_last_find = 0
    /\ ticks = 1
    /\ robots[ev.robot].energy = INITIAL_ROBOT_ENERGY - 2

\* C13: the update of a robot whose energy is 0 changes nothing: not its
\* position, energy, cargo, pending updates, stuck counter or state, not the
\* other robot, not the map, not the station.  It stays so tick after tick:
\* the energy of a robot leaves 0 only when the station refuels it, in its
\* interaction with the robots standing on it or in its respawn loop, and
\* then it is 100.
C13_InertWithoutEnergy ==
    [][/\ (ev'.op = "update" /\ robots[ev'.robot].energy = 0)
            => (robots' = robots /\ map' = map /\ station' = station)
       /\ \A i \in 1 .. Len(robots) :
             (robots[i].energy = 0 /\ robots'[i].energy # 0)
                 => /\ ev'.op \in {"interact", "respawn"}
                    /\ ev'.robot = i
                    /\ ev'.refueled
                    /\ robots'[i].energy = 100
                    /\ station'.energy = station.energy - 100]_vars

\* in its second tick without energy a robot was updated and nothing moved:
\* it had been brought to a station that could not pay for it
C13_Witness ==
    /\ ev.op = "update" /\ ev.log.branch = "inert"
    /\ ticks = 1
    /\ robots[ev.robot].energy = 0
    /\ robots[ev.robot].state = "AtStation"
    /\ station.energy < 100

\* C14: with every robot starting on a cell that is not an Obstacle and a
\* station that is not on an Obstacle, every robot is at every moment on a
\* cell of the map that is not an Obstacle, whatever steps, random steps,
\* relocations by the scan and relocations to the station it went through.
C14_NeverOnObstacle ==
    \A i \in 1 .. Len(robots) :
        /\ robots[i].x \in 0 .. map.width - 1
        /\ robots[i].y \in 0 .. map.height - 1
        /\ map.cells[<<robots[i].x, robots[i].y>>].cell_type.kind # "Obstacle"

\* on the map with the closed corner a robot that could not step was
\* relocated by its scan, over the obstacles
C14_Witness ==
    /\ map.cells[<<1, 0>>].cell_type = Obstacle
    /\ map.cells[<<0, 1>>].cell_type = Obstacle
    /\ ev.op = "update" /\ ev.log.move = "random" /\ ~ ev.log.moved
    /\ ev.log.teleported
    /\ <<robots[ev.robot].x, robots[ev.robot].y>> # <<0, 0>>

\* C16: after the updates of a tick, main handles every robot that stands on
\* the station cell, and no other.  The station is credited with the payload
\* the robot unloads: its energy above 100, its minerals, its science points.
\* Then, if the station (credit included) holds at least what the robot lacks
\* to 100, the robot is set to 100 and the station pays exactly that; if not,
\* the robot and the station keep their energy.  The robot is left with no
\* minerals, no science points, no pending updates, in state Exploring, where
\* it was; the station has learnt its pending updates.
C16_StationInteraction ==
    [][/\ (phase = "interact")
            => /\ ev'.op \in {"interact", "pass"}
               /\ ev'.robot = idx
               /\ (ev'.op = "interact")
                     <=> (robots[idx].x = station.x /\ robots[idx].y = station.y)
       /\ (ev'.op = "pass") => (robots' = robots /\ station' = station)
       /\ (ev'.op = "interact")
            => LET pre == robots[ev'.robot]
                   post == robots'[ev'.robot]
                   surplus == IF pre.energy > 100 THEN pre.energy - 100 ELSE 0
                   credited == station.energy + surplus
                   shortfall == 100 - (pre.energy - surplus)
               IN  /\ ev'.payload = <<surplus, pre.minerals, pre.science_points>>
                   /\ station'.minerals = station.minerals + pre.minerals
                   /\ station'.science_points = station.science_points + pre.science_points
                   /\ IF credited >= shortfall
                      THEN post.energy = 100 /\ station'.energy = credited - shortfall
                      ELSE post.energy = pre.energy /\ station'.energy = station.energy
                   /\ station'.known_map =
                          InsertUpdatesFrom(station.known_map,
                                            pre.pending_exploration_updates, 1)
                   /\ post = [pre EXCEPT !.energy = post.energy,
                                         !.minerals = 0,
                                         !.science_points = 0,
                                         !.pending_exploration_updates = <<>>,
                                         !.state = "Exploring"]
                   /\ \A j \in 1 .. Len(robots) : j # ev'.robot => robots'[j] = robots[j]
                   /\ map' = map]_vars

\* a robot came to the station with minerals and with news of the map, lacking
\* energy, and was refuelled
C16_Witness ==
    /\ ev.op = "interact" /\ ev.refueled
    /\ ev.payload[2] > 0
    /\ ev.updates # <<>>
    /\ robots[ev.robot].energy = 100
    /\ robots[ev.robot].minerals = 0
    /\ station.minerals > STATION_START_MINERALS

\* C17: in a tick the robots are updated one after the other, each exactly
\* once, in the order of the collection: the update loop starts with the first
\* robot, its k-th iteration updates the k-th robot and nothing else, and it
\* ends after the last robot.  The copies of the other robots given to the
\* update of robot i are, for the robots before i, what their own update of
\* this tick has left, and for the robots after i, what they were when the tick
\* began; robot i is not among them.
C17_TickOrdering ==
    [][/\ (phase # "update" /\ phase' = "update") => (idx' = 1)
       /\ (phase = "update") => (ev'.op = "update" /\ ev'.robot = idx)
       /\ (ev'.op = "update")
            => LET i == ev'.robot
                   n == Len(robots)
               IN  /\ Len(ev'.updated) = i
                   /\ Len(ev'.at_start) = n
                   /\ (i < n) => (phase' = "update" /\ idx' = i + 1)
                   /\ (i = n) => (phase' = "interact")
                   /\ robots'[i] = ev'.updated[i]
                   /\ \A k \in 1 .. n : k # i => robots'[k] = robots[k]
                   /\ Len(ev'.other_robots) = n - 1
                   /\ \A k \in 1 .. i - 1 : ev'.other_robots[k] = ev'.updated[k]
                   /\ \A k \in i + 1 .. n : ev'.other_robots[k - 1] = ev'.at_start[k]]_vars

\* the second robot was updated after the first one had stepped in the same
\* tick, and was given the first robot as that step left it
C17_Witness ==
    /\ ev.op = "update" /\ ev.robot = 2
    /\ ev.updated[1] # ev.at_start[1]
    /\ <<ev.updated[1].x, ev.updated[1].y>> # <<ev.at_start[1].x, ev.at_start[1].y>>
    /\ ev.other_robots = <<ev.updated[1]>>
    /\ ev.updated[2] # ev.at_start[2]

\* the cells a list of exploration updates names
ReportedCells(updates) == { updates[k][1] : k \in 1 .. Len(updates) }

ResourceKinds == {"Energy", "Mineral", "SciencePoint"}

C26_GridMonotone ==
    [][/\ map'.width = map.width /\ map'.height = map.height
       /\ DOMAIN map'.cells = DOMAIN map.cells
       /\ \A p \in DOMAIN map.cells :
             LET before == map.cells[p]
                 after == map'.cells[p]
             IN  /\ (before.cell_type = Obstacle) => (after.cell_type = Obstacle)
                 /\ (after.cell_type # before.cell_type)
                      => /\ before.cell_type.kind \in ResourceKinds
                         /\ after.cell_type = Empty
                         /\ ev'.op = "update" /\ ev'.log.collected
                         /\ p = <<robots[ev'.robot].x, robots[ev'.robot].y>>
                 /\ before.explored => after.explored]_vars

\* on the map with a resource in three corners, the energy deposit of the
\* corner (0, 0) has been extracted by the robot the last update moved, the
\* cell is Empty and explored, and the other corners are as generated
C26_Witness ==
    /\ ev.op = "update" /\ ev.log.collected
    /\ map.cells[<<0, 0>>] = [cell_type |-> Empty, explored |-> TRUE]
    /\ map.cells[<<MapW - 1, 0>>].cell_type = Mineral(MINERAL_DEPOSIT)
    /\ map.cells[<<MapW - 1, MapH - 1>>].cell_type = SciencePoint
    /\ map.cells[<<0, MapH - 1>>].cell_type = Obstacle
    /\ robots[ev.robot].energy > INITIAL_ROBOT_ENERGY

\* the respawn loop of this tick has ended: the creation step is next, or it
\* has just been taken
EndOfTick == phase = "create" \/ ev.op = "create"

\* C27: at the end of every tick every robot with energy 0 stands on the
\* station cell, in state AtStation, with stuck counter 0, and if there is such
\* a robot the station holds less than 100 energy.
C27_DeadRobotsAtStation ==
    EndOfTick =>
        \A i \in 1 .. Len(robots) :
            (robots[i].energy = 0)
                => /\ robots[i].x = station.x /\ robots[i].y = station.y
                   /\ robots[i].state = "AtStation"
                   /\ robots[i].steps_since_last_find = 0
                   /\ station.energy < INITIAL_ROBOT_ENERGY

\* the first tick has ended: the station has refuelled the second robot in
\* the interaction loop and holds too little for the first robot, which the
\* respawn loop has put on the station, where it lies without energy
C27_Witness ==
    /\ ev.op = "create" /\ ticks = 1
    /\ robots[1].energy = 0 /\ robots[1].state = "AtStation"
    /\ robots[1].steps_since_last_find = 0
    /\ robots[2].energy = INITIAL_ROBOT_ENERGY /\ robots[2].state = "Exploring"
    /\ \A i \in 1 .. 2 : robots[i].x = station.x /\ robots[i].y = station.y
    /\ station.energy = INITIAL_ROBOT_ENERGY \div 2

\* C28: every key of known_map is a position some robot has reported after
\* standing on it.  In every state each key is a position of the map whose
\* cell is explored and is not an Obstacle.  An update adds to the pending
\* updates of the robot at most one entry, for the cell the robot stood on
\* when the update began; known_map changes only in the interaction of a robot
\* on the station that has pending updates, and then gains the cells these
\* name; so it is empty, as Station::new leaves it, until the first such visit.
C28_KnownMapReported ==
    /\ [](\A p \in DOMAIN station.known_map :
              /\ p \in Positions(map.width, map.height)
              /\ map.cells[p].explored
              /\ map.cells[p].cell_type # Obstacle)
    /\ [][/\ (ev'.op = "update")
               => LET pre == robots[ev'.robot]
                      post == robots'[ev'.robot]
                      old == pre.pending_exploration_updates
                      new == post.pending_exploration_updates
                  IN  \/ new = old
                      \/ /\ Len(new) = Len(old) + 1
                         /\ SubSeq(new, 1, Len(old)) = old
                         /\ new[Len(new)][1] = <<pre.x, pre.y>>
          /\ (station'.known_map # station.known_map)
               => /\ ev'.op = "interact"
                  /\ robots[ev'.robot].x = station.x /\ robots[ev'.robot].y = station.y
                  /\ robots[ev'.robot].pending_exploration_updates # <<>>
          /\ (ev'.op = "interact")
               => /\ ev'.updates = robots[ev'.robot].pending_exploration_updates
                  /\ DOMAIN station'.known_map =
                        DOMAIN station.known_map \cup ReportedCells(ev'.updates)]_vars

\* a robot has recorded a cell next to the station, has stepped onto the
\* station and has reported: known_map, empty until then, has that cell as its
\* only key, while the robot that has lain on the station has reported nothing
C28_Witness ==
    /\ ev.op = "interact" /\ ev.robot = 1 /\ ticks = 0
    /\ Len(ev.updates) = 1
    /\ ev.updates[1][1] # <<station.x, station.y>>
    /\ DOMAIN station.known_map = {ev.updates[1][1]}
    /\ robots[2].energy = 0
    /\ robots[2].pending_exploration_updates = <<>>

\* C29: in the loop of main no pending update of a robot and no entry of
\* known_map holds Energy, Mineral or SciencePoint: each of them says Empty.
C29_OnlyEmptyKnown ==
    /\ \A i \in 1 .. Len(robots) :
          \A k \in 1 .. Len(robots[i].pending_exploration_updates) :
              robots[i].pending_exploration_updates[k][2] = Empty
    /\ \A p \in DOMAIN station.known_map : station.known_map[p] = Empty

\* on the map with a resource in three corners a robot has extracted the
\* mineral deposit of the corner (MapW - 1, 0), has walked to the station and
\* has handed over the minerals and its report: the station knows the corner
\* as Empty
C29_Witness ==
    /\ ev.op = "interact" /\ ev.payload[2] = MINERAL_DEPOSIT
    /\ map.cells[<<0, 0>>].cell_type = Energy(ENERGY_DEPOSIT)
    /\ map.cells[<<MapW - 1, 0>>] = [cell_type |-> Empty, explored |-> TRUE]
    /\ <<MapW - 1, 0>> \in ReportedCells(ev.updates)
    /\ <<MapW - 1, 0>> \in DOMAIN station.known_map
    /\ station.known_map[<<MapW - 1, 0>>] = Empty

SharedCell(rs, st) ==
    \E i, j \in 1 .. Len(rs) :
       /\ i < j
       /\ rs[i].energy > 0 /\ rs[j].energy > 0
       /\ rs[i].x = rs[j].x /\ rs[i].y = rs[j].y
       /\ ~ (rs[i].x = st.x /\ rs[i].y = st.y)

\* the creation step has been taken or skipped: the next step is the first
\* update of a tick
TickBoundary == phase = "update" /\ idx = 1

\* C34: at every tick boundary no two robots with energy > 0 stand on the same
\* cell, unless that cell is the station cell.
C34_NoSharedCell == TickBoundary => ~ SharedCell(robots, station)

\* after two ticks both robots have energy and stand side by side away from
\* the station, on which the second of them began
C34_Witness ==
    /\ TickBoundary /\ ticks = 2
    /\ ~ SharedCell(robots, station)
    /\ robots[1].energy > 0 /\ robots[2].energy > 0
    /\ ~ (robots[1].x = station.x /\ robots[1].y = station.y)
    /\ ~ (robots[2].x = station.x /\ robots[2].y = station.y)
    /\ Abs(robots[1].x - robots[2].x) + Abs(robots[1].y - robots[2].y) = 1

-----------------------------------------------------------------------------
(* ProvisionSpec: the loop of main around the cap on the number of robots.
   The station knows of resources and holds about what a new robot requires;
   There are 10 to 12 Explorers, on the station but for the first one, which
   may lie in the corner (0, 0) without energy.  No robot can step: the only
   cells without an obstacle are the station and that corner, where new robots
   are put. *)

CornerMap ==
    MapOf(MapW, MapH,
          [p \in Positions(MapW, MapH) |->
              IF p \in {<<0, 0>>, <<StationX, StationY>>} THEN Empty ELSE Obstacle])

ProvisionInit ==
    /\ map = CornerMap
    /\ \E n \in MAX_ROBOT_COUNT - 2 .. MAX_ROBOT_COUNT,
          first \in { NewWithType(StationX, StationY, "Explorer"),
                      [NewWithType(0, 0, "Explorer") EXCEPT !.energy = 0] } :
          robots = <<first>> \o Repeat(NewWithType(StationX, StationY, "Explorer"), n - 1)
    /\ \E energy \in {399, 400, 500, STATION_START_ENERGY}, minerals \in {149, 150, 200},
          energy_n \in 0 .. 1, mineral_n \in 0 .. 1, science_n \in 0 .. 1 :
          station = [StationWith(energy) EXCEPT
                        !.minerals = minerals,
                        !.known_map = KnownMapOf(energy_n, mineral_n, science_n, 1, 1)]
    /\ phase = "update"
    /\ idx = 1
    /\ ticks = 0
    /\ ev = NoEvent
    /\ search = NoSearch
    /\ replay = NoSearch

ProvisionSpec == ProvisionInit /\ [][Next]_vars

\* C15: in the loop of main the robots never become fewer and never more than
\* 12: no step removes a robot or changes the place of a robot in the
\* collection, and the only step that adds one is the creation step of a tick
\* in which should_create_robot is true: fewer than 12 robots, at least 400
\* energy and 150 minerals, at least 2 known resources.  It adds one robot.
C15_FleetBounded ==
    /\ [](Len(robots) <= 12)
    /\ [][/\ Len(robots') >= Len(robots)
           /\ \A i \in 1 .. Len(robots) : robots'[i].robot_type = robots[i].robot_type
           /\ (Len(robots') # Len(robots))
                 => /\ ev'.op = "create" /\ ev'.created
                    /\ Len(robots') = Len(robots) + 1
                    /\ Len(robots) < 12
                    /\ station.energy >= 400
                    /\ station.minerals >= 150
                    /\ Cardinality(KnownEntries({"Energy", "Mineral"}, 1)
                                     \cup KnownEntries({"SciencePoint"}, 0)) >= 2]_vars

\* the creation step of the first tick made the 12th robot; that of the second
\* tick made none, with a station that could have paid for one
C15_Witness ==
    /\ ev.op = "create" /\ ~ ev.created
    /\ ticks = 2
    /\ Len(robots) = 12
    /\ robots[12].x = 0 /\ robots[12].y = 0
    /\ station.energy >= 400 /\ station.minerals >= 150
    /\ Cardinality(KnownEntries({"Energy", "Mineral"}, 1)
                     \cup KnownEntries({"SciencePoint"}, 0)) >= 2

-----------------------------------------------------------------------------
(* UpdateSpec: steps and updates of robots[1] from the thresholds of the
   return policy and from each state of the state machine, on the map with
   resources, the map with the closed corner, with and without a resource in
   that corner, and the map where the station is walled in.  robots[2] stands
   on the station, active or out of energy. *)

\* the robot as created
FreshProfile ==
    [energy |-> INITIAL_ROBOT_ENERGY, minerals |-> 0, science_points |-> 0, pending |-> 0,
     state |-> "Exploring", steps |-> 0]

\* energy, cargo, number of pending updates, state and stuck counter of
\* robots[1] at the start: each quantity on both sides of the value
\* should_return_to_station compares it with, the other states of the state
\* machine, a stuck robot, and robots out of energy
UpdateProfiles ==
    { [FreshProfile EXCEPT !.energy = e] : e \in {1, 20, 21, 25, 26, 170, 171} }
    \cup { [FreshProfile EXCEPT !.energy = 26, !.minerals = n] : n \in {35, 36} }
    \cup { [FreshProfile EXCEPT !.energy = 26, !.science_points = n] : n \in {6, 7} }
    \cup { [FreshProfile EXCEPT !.energy = 26, !.pending = n] : n \in {30, 31} }
    \cup { [FreshProfile EXCEPT !.state = st] : st \in RobotStates }
    \cup { [FreshProfile EXCEPT !.steps = 5] }
    \cup { [FreshProfile EXCEPT !.energy = 0, !.state = st, !.steps = 2, !.pending = 1] :
             st \in RobotStates }

UpdateInit ==
    /\ map \in { RichMap, PocketMap, WalledMap,
                  [PocketMap EXCEPT !.cells[<<0, 0>>].cell_type = Mineral(MINERAL_DEPOSIT)] }
    /\ \E p \in Positions(MapW, MapH), robot_type \in RobotTypes,
          profile \in UpdateProfiles, other_energy \in {0, INITIAL_ROBOT_ENERGY} :
          /\ map.cells[p].cell_type # Obstacle
          /\ robots =
                << [RobotAt(p, robot_type, profile.energy,
                            <<profile.minerals, profile.science_points>>, profile.steps)
                       EXCEPT !.state = profile.state,
                              !.pending_exploration_updates =
                                  Repeat(<<p, Empty>>, profile.pending),
                              !.target_x = IF profile.state = "Exploring"
                                           THEN <<>> ELSE <<StationX>>,
                              !.target_y = IF profile.state = "Exploring"
                                           THEN <<>> ELSE <<StationY>>],
                   [NewWithType(StationX, StationY, "Explorer") EXCEPT
                       !.energy = other_energy] >>
    /\ station = StationWith(STATION_START_ENERGY)
    /\ phase = "api"
    /\ idx = 1
    /\ ticks = 0
    /\ ev = NoEvent
    /\ search = NoSearch
    /\ replay = NoSearch

UpdateNext ==
    \/ OpMoveInDirection
    \/ OpAutonomousUpdate

UpdateSpec == UpdateInit /\ [][UpdateNext]_vars

-----------------------------------------------------------------------------
(* Claims about one update of a robot (UpdateSpec) *)

\* C12: an update of a robot that has energy and is Exploring puts it in the
\* state ReturningToStation exactly when its energy is at most 25, or it is
\* an Explorer with more than 30 pending updates, or an EnergyCollector with
\* energy above 170, or a MineralCollector with more than 35 minerals, or a
\* Scientist with more than 6 science points.
C12_ReturnPolicy ==
    [][(ev'.op = "autonomous_update" /\ robots[1].energy > 0 /\ robots[1].state = "Exploring")
          => LET r == robots[1]
             IN  (robots'[1].state = "ReturningToStation")
                     <=> \/ r.energy <= 25
                         \/ r.robot_type = "Explorer" /\ Len(r.pending_exploration_updates) > 30
                         \/ r.robot_type = "EnergyCollector" /\ r.energy > 170
                         \/ r.robot_type = "MineralCollector" /\ r.minerals > 35
                         \/ r.robot_type = "Scientist" /\ r.science_points > 6]_vars

\* an Explorer with energy to spare has turned back at its 31st pending update
C12_Witness ==
    /\ ev.op = "autonomous_update" /\ ev.log.branch = "return_fired"
    /\ robots[1].robot_type = "Explorer"
    /\ robots[1].state = "ReturningToStation"
    /\ robots[1].energy > 25
    /\ Len(robots[1].pending_exploration_updates) = 31

\* C18: move_in_direction returns true exactly when the cell next to the robot
\* in the given direction is in the map, is not an Obstacle and holds none of
\* the other robots that has energy; a robot without energy does not block
\* its cell.  Then the robot is on that cell, one step away, and its energy is
\* one less, or 0 if it was 0; nothing else of it changes.  When it returns
\* false the robot is as before.  The other robots and the map are untouched.
C18_MoveLegalityAndCost ==
    [][(ev'.op = "move_in_direction")
          => LET pre == robots[1]
                 post == robots'[1]
                 target == CASE ev'.direction = "North" -> <<pre.x, pre.y - 1>>
                             [] ev'.direction = "East" -> <<pre.x + 1, pre.y>>
                             [] ev'.direction = "South" -> <<pre.x, pre.y + 1>>
                             [] ev'.direction = "West" -> <<pre.x - 1, pre.y>>
                 legal == /\ target \in DOMAIN map.cells
                          /\ map.cells[target].cell_type.kind # "Obstacle"
                          /\ \A j \in 2 .. Len(robots) :
                                 (<<robots[j].x, robots[j].y>> = target)
                                     => (robots[j].energy = 0)
             IN  /\ ev'.ok <=> legal
                 /\ ev'.ok => (post = [pre EXCEPT
                                         !.x = target[1], !.y = target[2],
                                         !.energy = IF pre.energy = 0 THEN 0
                                                    ELSE pre.energy - 1])
                 /\ (~ ev'.ok) => (post = pre)
                 /\ \A j \in 2 .. Len(robots) : robots'[j] = robots[j]
                 /\ map' = map]_vars

\* the robot has stepped onto the station cell, where a robot without energy
\* lies
C18_Witness ==
    /\ ev.op = "move_in_direction" /\ ev.ok
    /\ robots[1].x = robots[2].x /\ robots[1].y = robots[2].y
    /\ robots[2].energy = 0
    /\ robots[1].energy = INITIAL_ROBOT_ENERGY - 1

\* C19: one update changes the state of a robot only along three edges.
\* Exploring becomes ReturningToStation, when the return policy fires, and
\* nothing else.  ReturningToStation becomes AtStation, exactly when the
\* robot has energy and stands on the station cell as the update begins, and
\* nothing else; the robot does not step in that update.  AtStation becomes
\* Exploring in every update of a robot that has energy, and the robot and the
\* map are otherwise as before.  So no update leads from Exploring to
\* AtStation or from ReturningToStation to Exploring, and each state has an
\* edge that leaves it.
C19_StateMachineShape ==
    [][(ev'.op = "autonomous_update")
          => LET pre == robots[1]
                 post == robots'[1]
                 on_station == pre.x = station.x /\ pre.y = station.y
                 policy == \/ pre.energy <= 25
                           \/ pre.robot_type = "Explorer"
                                 /\ Len(pre.pending_exploration_updates) > 30
                           \/ pre.robot_type = "EnergyCollector" /\ pre.energy > 170
                           \/ pre.robot_type = "MineralCollector" /\ pre.minerals > 35
                           \/ pre.robot_type = "Scientist" /\ pre.science_points > 6
             IN  /\ (pre.energy = 0) => (post.state = pre.state)
                 /\ (pre.energy > 0 /\ pre.state = "Exploring")
                       => /\ post.state \in {"Exploring", "ReturningToStation"}
                          /\ (post.state = "ReturningToStation") <=> policy
                 /\ (pre.energy > 0 /\ pre.state = "ReturningToStation")
                       => /\ post.state \in {"ReturningToStation", "AtStation"}
                          /\ (post.state = "AtStation") <=> on_station
                          /\ (post.state = "AtStation")
                                => (post = [pre EXCEPT !.state = "AtStation"] /\ map' = map)
                 /\ (pre.energy > 0 /\ pre.state = "AtStation")
                       => (post = [pre EXCEPT !.state = "Exploring"] /\ map' = map)]_vars

\* a robot that was on its way back and on the station has been through two
\* updates without a step: the first made it AtStation, the second Exploring
\* (the map is the one with resources, where every step from the station
\* succeeds and costs energy)
C19_Witness ==
    /\ ev.op = "autonomous_update" /\ ev.log.branch = "at_station"
    /\ ticks = 2
    /\ map = RichMap
    /\ robots[1].state = "Exploring"
    /\ robots[1].x = station.x /\ robots[1].y = station.y
    /\ robots[1].energy = INITIAL_ROBOT_ENERGY
    /\ robots[1].target_x = <<station.x>>

\* C20: an update of an Exploring robot in which the return policy does not
\* fire and the robot takes no step, whether or not it has extracted something
\* from its cell, adds one to the stuck counter.  The counter is one more than
\* before when the update ends, unless it has passed 5 and the scan of the same
\* update has relocated the robot, which sets it to 0.
C20_FailedStepCounts ==
    [][(/\ ev'.op = "autonomous_update"
        /\ robots[1].energy > 0
        /\ robots[1].state = "Exploring" /\ robots'[1].state = "Exploring"
        /\ ~ ev'.log.moved)
          => LET before == robots[1].steps_since_last_find
                 after == robots'[1].steps_since_last_find
             IN  /\ ev'.log.steps_before_scan = before + 1
                 /\ ev'.log.teleported => (before + 1 > 5 /\ after = 0)
                 /\ (~ ev'.log.teleported) => (after = before + 1)]_vars

\* a robot in the closed corner has been through two updates: it could not
\* step, had nothing to extract, and its counter is at 2
C20_Witness ==
    /\ ev.op = "autonomous_update" /\ ev.log.branch = "explore"
    /\ ~ ev.log.moved /\ ~ ev.log.collected
    /\ ticks = 2
    /\ robots[1].x = 0 /\ robots[1].y = 0
    /\ map.cells[<<1, 0>>].cell_type = Obstacle /\ map.cells[<<0, 1>>].cell_type = Obstacle
    /\ robots[1].steps_since_last_find = 2

\* the cell next to p in a direction (it may lie outside the map)
Neighbour(p, direction) ==
    CASE direction = "North" -> <<p[1], p[2] - 1>>
      [] direction = "East" -> <<p[1] + 1, p[2]>>
      [] direction = "South" -> <<p[1], p[2] + 1>>
      [] direction = "West" -> <<p[1] - 1, p[2]>>

\* the order in which a robot at p tries the directions when the planner has
\* failed: towards the station first, horizontally if the station lies in
\* another column; away from it last
TowardsOrder(p, goal) ==
    LET h == IF p[1] < goal[1] THEN "East" ELSE "West"
        h_back == IF p[1] < goal[1] THEN "West" ELSE "East"
        v == IF p[2] < goal[2] THEN "South" ELSE "North"
        v_back == IF p[2] < goal[2] THEN "North" ELSE "South"
    IN  IF p[1] # goal[1] /\ p[2] # goal[2] THEN <<h, v, v_back, h_back>>
        ELSE IF p[1] # goal[1] THEN <<h, "North", "South", h_back>>
        ELSE <<v, "East", "West", v_back>>

\* C22: the update of a robot that has energy, is ReturningToStation and is
\* not on the station cell: if the planner returns a path of more than one
\* position, the robot steps onto the second position of that path.  If the
\* planner returns no path, the robot steps onto the first legal cell among
\* its four neighbours, taken in the order the signs of (dx, dy) towards the
\* station give; the random move that follows finds nothing more, so the robot
\* stays where it is exactly when the planner fails and none of its four
\* neighbours is legal.  A step costs exactly 1 energy; nothing else of the
\* robot changes, and nothing of the map.
C22_ReturnMovement ==
    [][(/\ ev'.op = "autonomous_update"
        /\ robots[1].energy > 0
        /\ robots[1].state = "ReturningToStation"
        /\ <<robots[1].x, robots[1].y>> # <<station.x, station.y>>)
          => LET pre == robots[1]
                 post == robots'[1]
                 here == <<pre.x, pre.y>>
                 other_robots == OtherRobots(robots, 1)
                 path == FindPath(pre.x, pre.y, station.x, station.y, map, other_robots)
                 order == TowardsOrder(here, <<station.x, station.y>>)
                 legal == { k \in 1 .. 4 :
                              LegalCell(Neighbour(here, order[k]), map, other_robots) }
                 first == CHOOSE k \in legal : \A j \in legal : k <= j
                 dest == IF Len(path) > 1 THEN path[2]
                         ELSE IF legal # {} THEN Neighbour(here, order[first])
                         ELSE here
             IN  /\ post = [pre EXCEPT !.x = dest[1], !.y = dest[2],
                                       !.energy = IF dest # here THEN pre.energy - 1
                                                  ELSE pre.energy]
                 /\ (<<post.x, post.y>> = here) <=> (Len(path) <= 1 /\ legal = {})
                 /\ (Len(path) > 1) <=> (ev'.log.move = "planned")
                 /\ ev'.log.moved <=> (<<post.x, post.y>> # here)
                 /\ map' = map]_vars

\* the planner found no path to a station held by an active robot, the cell
\* towards the station was not legal, and the robot stepped sideways onto the
\* corner (MapW - 1, 0) for 1 energy
C22_Witness ==
    /\ ev.op = "autonomous_update" /\ ev.log.move = "greedy"
    /\ ticks = 1
    /\ robots[1].state = "ReturningToStation"
    /\ robots[1].x = MapW - 1 /\ robots[1].y = 0
    /\ robots[1].energy = INITIAL_ROBOT_ENERGY - 1
    /\ robots[2].energy > 0
    /\ robots[2].x = station.x /\ robots[2].y = station.y

\* C38: an update that begins in ReturningToStation or AtStation, and one that
\* begins in Exploring and in which the return policy fires, leaves the map,
\* the other robots and the station as they are, and the minerals, science
\* points, pending updates and stuck counter of the robot; if the policy fired
\* or the robot was AtStation, its position and energy too.
C38_NonExploringFrame ==
    [][(/\ ev'.op = "autonomous_update"
        /\ \/ robots[1].state \in {"ReturningToStation", "AtStation"}
           \/ robots[1].state = "Exploring" /\ ShouldReturnToStation(robots[1]))
          => /\ map' = map
             /\ station' = station
             /\ robots'[2] = robots[2]
             /\ robots'[1].minerals = robots[1].minerals
             /\ robots'[1].science_points = robots[1].science_points
             /\ robots'[1].pending_exploration_updates
                   = robots[1].pending_exploration_updates
             /\ robots'[1].steps_since_last_find = robots[1].steps_since_last_find
             /\ robots'[1].robot_type = robots[1].robot_type
             /\ (robots[1].state # "ReturningToStation")
                   => /\ robots'[1].x = robots[1].x /\ robots'[1].y = robots[1].y
                      /\ robots'[1].energy = robots[1].energy
             /\ (robots[1].state = "ReturningToStation")
                   => robots'[1].energy
                         = robots[1].energy - (IF ev'.log.moved THEN 1 ELSE 0)]_vars

\* the MineralCollector with 36 minerals stands in the closed corner on a
\* deposit: its first update has turned it back, its second one has tried to
\* walk, and the deposit lies there untouched and unexplored
C38_Witness ==
    /\ ev.op = "autonomous_update" /\ ev.log.branch = "towards_station"
    /\ ticks = 2
    /\ robots[1].robot_type = "MineralCollector"
    /\ robots[1].minerals = 36
    /\ robots[1].energy = 26
    /\ robots[1].x = 0 /\ robots[1].y = 0
    /\ map.cells[<<0, 0>>] = NewCell(Mineral(MINERAL_DEPOSIT))

-----------------------------------------------------------------------------
(* StuckSpec: try_unstuck and the updates of an Exploring robots[1] whose
   stuck counter is around 5, on the map with resources, the map with the
   closed corner, the map where the station is walled in and, for a
   MineralCollector, the open map after every cell of it has been explored.
   robots[2]
   stands on the station or in the corner opposite to (0, 0), active or out
   of energy. *)

StuckInit ==
    /\ map \in {RichMap, PocketMap, WalledMap,
                [OpenMap EXCEPT !.cells =
                    [p \in Positions(MapW, MapH) |-> [@[p] EXCEPT !.explored = TRUE]]]}
    /\ \E p \in Positions(MapW, MapH), robot_type \in RobotTypes,
          energy \in {2, 3, 26, INITIAL_ROBOT_ENERGY}, steps \in 4 .. 6,
          other \in {<<StationX, StationY>>, <<MapW - 1, MapH - 1>>},
          other_energy \in {0, INITIAL_ROBOT_ENERGY} :
          /\ map.cells[p].cell_type # Obstacle
          /\ map.cells[other].cell_type # Obstacle
          /\ map.cells[<<0, 0>>].explored
                => /\ robot_type = "MineralCollector"
                   /\ energy = INITIAL_ROBOT_ENERGY
                   /\ steps = 4
                   /\ other_energy = 0
          /\ robots = << RobotAt(p, robot_type, energy, <<0, 0>>, steps),
                        [NewWithType(other[1], other[2], "Explorer") EXCEPT
                            !.energy = other_energy] >>
    /\ station = StationWith(STATION_START_ENERGY)
    /\ phase = "api"
    /\ idx = 1
    /\ ticks = 0
    /\ ev = NoEvent
    /\ search = NoSearch
    /\ replay = NoSearch

StuckNext ==
    \/ OpTryUnstuck
    \/ OpAutonomousUpdate

StuckSpec == StuckInit /\ [][StuckNext]_vars

\* the cells the scan of try_unstuck looks at from (x, y): each offset of each
\* radius, clamped into the map
ScanCandidates(x, y, m) ==
    { <<Clamp(x + UnstuckOffsets[radius][angle][1], 0, m.width - 1),
        Clamp(y + UnstuckOffsets[radius][angle][2], 0, m.height - 1)>> :
      radius \in 1 .. Len(UnstuckOffsets), angle \in 1 .. 16 }

\* the cells among them that are legal for a robot, the other robots given
ScanLegal(x, y, m, other_robots) ==
    { c \in ScanCandidates(x, y, m) : LegalCell(c, m, other_robots) }

\* what the scan owes: from the robot mid on the map m it leaves the robot post
ScanOutcome(mid, post, m, other_robots) ==
    IF ScanLegal(mid.x, mid.y, m, other_robots) # {}
    THEN /\ <<post.x, post.y>> \in ScanLegal(mid.x, mid.y, m, other_robots)
         /\ post = [mid EXCEPT !.x = post.x, !.y = post.y,
                                !.energy = IF mid.energy >= 3 THEN mid.energy - 3 ELSE 0,
                                !.steps_since_last_find = 0]
    ELSE post = mid

\* C21: an update of an Exploring robot in which the return policy does not
\* fire runs the scan in that same update exactly when the stuck counter, as
\* the step of the update has left it, exceeds 5.  If one of the cells the scan
\* looks at is legal (in the map, not an Obstacle, not held by another robot
\* with energy), the scan puts the robot on a legal one of them, takes 3 from
\* its energy (all of it if it has less) and sets its counter to 0; if none is
\* legal, it leaves position, energy and counter as they were, so that the
\* counter is still above 5.  Nothing else of the robot changes.  The same
\* holds of try_unstuck called on its own.
C21_StuckRecovery ==
    [][/\ (ev'.op = "autonomous_update" /\ ev'.log.branch = "explore")
            => LET mid == ev'.log.robot_before_scan
                   post == robots'[1]
                   other_robots == OtherRobots(robots, 1)
               IN  /\ ev'.log.unstuck <=> (mid.steps_since_last_find > 5)
                   /\ IF mid.steps_since_last_find > 5
                      THEN /\ ScanOutcome(mid, post, map', other_robots)
                           /\ ev'.log.teleported
                                 <=> (ScanLegal(mid.x, mid.y, map', other_robots) # {})
                           /\ (~ ev'.log.teleported) => (post.steps_since_last_find > 5)
                      ELSE post = mid /\ ~ ev'.log.teleported
       /\ (ev'.op = "try_unstuck")
            => /\ ScanOutcome(robots[1], robots'[1], map, OtherRobots(robots, 1))
               /\ ev'.teleported
                     <=> (ScanLegal(robots[1].x, robots[1].y, map, OtherRobots(robots, 1)) # {})
               /\ map' = map]_vars

\* a robot closed in the corner (0, 0) failed a sixth step and was put by its
\* scan on another cell, not the opposite corner, where an active robot stands
C21_Witness ==
    /\ ev.op = "autonomous_update" /\ ev.log.branch = "explore"
    /\ ~ ev.log.moved /\ ev.log.steps_before_scan = 6 /\ ev.log.teleported
    /\ ev.log.robot_before_scan.x = 0 /\ ev.log.robot_before_scan.y = 0
    /\ robots[2].x = MapW - 1 /\ robots[2].y = MapH - 1 /\ robots[2].energy > 0
    /\ <<robots[1].x, robots[1].y>> \notin {<<0, 0>>, <<MapW - 1, MapH - 1>>}
    /\ robots[1].steps_since_last_find = 0
    /\ robots[1].energy = ev.log.robot_before_scan.energy - 3


\* C32: the stuck counter in an update of an Exploring robot in which the
\* return policy does not fire.  A step in the chosen direction that lands on
\* a cell holding Energy, Mineral or SciencePoint sets the counter to 0, and no
\* scan follows; a step in the chosen direction that lands on any other cell
\* adds 1 to the counter although the robot has moved; a random step that
\* succeeds leaves the counter as it is.  So a robot whose counter has reached
\* 5 and that steps onto a cell without resource runs the scan in that update,
\* although it has moved in it.
C32_CounterAccounting ==
    [][(ev'.op = "autonomous_update" /\ ev'.log.branch = "explore")
          => LET pre == robots[1]
                 mid == ev'.log.robot_before_scan
                 scored == ev'.log.move = "scored" /\ ev'.log.moved
                 landed_on_resource ==
                     map'.cells[<<mid.x, mid.y>>].cell_type.kind \in ResourceKinds
             IN  /\ ev'.log.moved <=> (<<mid.x, mid.y>> # <<pre.x, pre.y>>)
                 /\ (scored /\ landed_on_resource)
                       => /\ mid.steps_since_last_find = 0
                          /\ ~ ev'.log.unstuck
                          /\ robots'[1].steps_since_last_find = 0
                 /\ (scored /\ ~ landed_on_resource)
                       => /\ mid.steps_since_last_find = pre.steps_since_last_find + 1
                          /\ (pre.steps_since_last_find >= 5) => ev'.log.unstuck
                 /\ (ev'.log.move = "random" /\ ev'.log.moved)
                       => mid.steps_since_last_find = pre.steps_since_last_find]_vars

\* a robot whose counter was 4 has stepped twice onto cells without resource;
\* the second step has brought the counter to 6 and the scan has run
C32_Witness ==
    /\ ev.op = "autonomous_update" /\ ev.log.branch = "explore"
    /\ ticks = 2
    /\ ev.log.move = "scored" /\ ev.log.moved
    /\ ev.log.steps_before_scan = 6 /\ ev.log.unstuck
    /\ map.cells[<<ev.log.robot_before_scan.x, ev.log.robot_before_scan.y>>].cell_type = Empty
    /\ robots[1].energy < INITIAL_ROBOT_ENERGY - 1


-----------------------------------------------------------------------------
(* ReturnSpec: the loop of main without end, for robots on their way back.
   robots[1] is an Explorer with the least energy that lets it explore (26,
   counter 0 or 5), or one that has just been put somewhere by its scan and
   is about to return (energy 25 or 22, counter 0), or one that has walked on
   its way back and has little energy left; robots[2] lies on the station
   without energy and the station cannot pay for it.  The steps are those of Spec, but the ticks
   are not counted, and the loop never stops. *)

ReturnInit ==
    /\ map \in {OpenMap, PocketMap}
    /\ \E p \in Positions(MapW, MapH),
          profile \in { [energy |-> 26, state |-> "Exploring", steps |-> 0],
                        [energy |-> 26, state |-> "Exploring", steps |-> 5],
                        [energy |-> 25, state |-> "Exploring", steps |-> 0],
                        [energy |-> 22, state |-> "Exploring", steps |-> 0],
                        [energy |-> 2, state |-> "ReturningToStation", steps |-> 0],
                        [energy |-> 1, state |-> "ReturningToStation", steps |-> 0] } :
          /\ map.cells[p].cell_type # Obstacle
          /\ p # <<StationX, StationY>>
          /\ (profile.state = "ReturningToStation")
                => \E c \in Adjacent4(p) : LegalCell(c, map, <<>>)
          /\ robots = << StartRobot(p, "Explorer", profile),
                        [NewWithType(StationX, StationY, "Explorer") EXCEPT
                            !.energy = 0, !.state = "AtStation"] >>
    /\ station = StationWith(INITIAL_ROBOT_ENERGY \div 2)
    /\ phase = "update"
    /\ idx = 1
    /\ ticks = 0
    /\ ev = NoEvent
    /\ search = NoSearch
    /\ replay = NoSearch

\* lines 222-231, the end of the tick; the next tick begins
ReturnCreateStep ==
    /\ phase = "create"
    /\ LET out == CreationStep(station, robots, map)
       IN  /\ station' = out.station
           /\ robots' = out.robots
           /\ ev' = [op |-> "create", created |-> out.created]
    /\ phase' = "update"
    /\ idx' = 1
    /\ UNCHANGED <<map, ticks, search, replay>>

ReturnNext ==
    \/ UpdateRobot
    \/ InteractRobot
    \/ PassRobot
    \/ RespawnRobot
    \/ KeepRobot
    \/ ReturnCreateStep

\* "while running": the loop of main goes on.  Every step of ReturnNext moves
\* the position in the loop, <<phase, idx>>, and one of them is enabled in every
\* state, so that the fairness of ReturnNext is that of the moves of the
\* position.
ReturnSpec ==
    ReturnInit /\ [][ReturnNext]_vars
        /\ WF_<<phase, idx>>(phase' \in {"update", "interact", "respawn", "create"}
                                /\ idx' \in 1 .. Len(robots))

\* robot i stands on the station cell
OnStation(i) == robots[i].x = station.x /\ robots[i].y = station.y

\* robot i is on its way back, has energy and cannot step: none of the four
\* cells next to it is in the map, free of obstacle and free of active robots
BoxedIn(i) ==
    /\ robots[i].state = "ReturningToStation" /\ robots[i].energy > 0
    /\ ~ OnStation(i)
    /\ \A c \in Adjacent4(<<robots[i].x, robots[i].y>>) :
          ~ LegalCell(c, map, OtherRobots(robots, i))

\* C33, as stated: in the loop of main every robot that enters
\* ReturningToStation eventually stands on the station cell.
C33_ReturnReachesStation ==
    \A i \in 1 .. 2 :
        [](robots[i].state = "ReturningToStation" => <>OnStation(i))

\* C33, amended: in the loop of main every robot that enters
\* ReturningToStation eventually stands on the station cell, by arriving or by
\* running out of energy and being put there by the station, or is boxed in:
\* it has energy and no cell next to it is legal.  A boxed-in robot is left as
\* it is by every step of the loop, position, energy and state, and the map
\* does not change under it; if obstacles box it in, it never reaches the
\* station.
C33_ReturnUnlessBoxedIn ==
    /\ \A i \in 1 .. 2 :
          [](robots[i].state = "ReturningToStation" => <>(OnStation(i) \/ BoxedIn(i)))
    /\ [][\A i \in 1 .. 2 :
             BoxedIn(i) => (robots'[i] = robots[i] /\ map' = map /\ ~ OnStation(i)')]_vars

\* a robot that its scan had put into the closed corner (0, 0) with 25 energy
\* has turned back and has been updated on its way back: it has not moved and
\* has lost no energy
C33_Witness ==
    /\ ev.op = "update" /\ ev.robot = 1
    /\ ev.log.branch = "towards_station" /\ ~ ev.log.moved
    /\ BoxedIn(1)
    /\ robots[1].x = 0 /\ robots[1].y = 0 /\ robots[1].energy = 25
    /\ map.cells[<<1, 0>>].cell_type = Obstacle /\ map.cells[<<0, 1>>].cell_type = Obstacle


\* C35: an update that starts in Exploring lowers the energy of the robot only
\* if it starts with at least 26, by at most 4 and to no less than 22, and
\* with 25 or less it leaves energy and position as they are; the energy of a
\* robot becomes 0 only in an update that starts in ReturningToStation and moves
\* the robot.
C35_ExploringKeepsReserve ==
    /\ [][(ev'.op = "update" /\ robots[ev'.robot].state = "Exploring")
             => LET r == robots[ev'.robot]
                    after == robots'[ev'.robot]
                IN  /\ (r.energy >= 26) => (after.energy >= 22 /\ after.energy >= r.energy - 4)
                    /\ (r.energy <= 25)
                          => /\ after.energy = r.energy
                             /\ after.x = r.x /\ after.y = r.y
                             /\ ~ ev'.log.moved /\ ~ ev'.log.teleported
                    /\ (ev'.log.moved \/ ev'.log.teleported) => r.energy >= 26]_vars
    /\ [][\A i \in 1 .. Len(robots) :
             (robots[i].energy > 0 /\ robots'[i].energy = 0)
                => /\ ev'.op = "update" /\ ev'.robot = i
                   /\ robots[i].state = "ReturningToStation"
                   /\ ev'.log.branch \in {"towards_station", "arrived"}
                   /\ ev'.log.moved
                   /\ robots[i].energy = 1]_vars

\* the statement without the condition on the energy the update starts with
C35_ExploringEndsWithReserve ==
    [][(ev'.op = "update" /\ robots[ev'.robot].state = "Exploring")
          => robots'[ev'.robot].energy >= 22]_vars

\* an Explorer that began its update with energy 26 and counter 5 has stepped
\* and been moved by its scan, and has 22 left
C35_Witness ==
    /\ ev.op = "update" /\ ev.robot = 1
    /\ ev.log.branch = "explore"
    /\ ev.log.moved /\ ev.log.teleported
    /\ robots[1].energy = 22
    /\ robots[1].state = "Exploring"

-----------------------------------------------------------------------------
(* LedgerSpec: the loop of main where energy and minerals change hands.  The
   map has one deposit of each kind; robots[1] is a collector, fresh, stuck,
   on its way back with cargo and energy above or far below 100, or out of
   energy, or it is such an Explorer away from the station with 30 pending
   updates; robots[2] lies on the station, with or without energy.  The poor
   station cannot refuel; the rich one can, and it has been told of three
   resources (share_data), so that it creates robots. *)

LedgerProfiles ==
    StartProfiles
        \cup { [energy |-> INITIAL_ROBOT_ENERGY + 72, state |-> "ReturningToStation", steps |-> 0] }

LedgerInit ==
    /\ map = [RichMap EXCEPT !.cells[<<StationX, StationY>>].explored = TRUE]
    /\ \E p \in Positions(MapW, MapH),
          robot_type \in {"EnergyCollector", "MineralCollector", "Explorer"},
          profile \in LedgerProfiles, cargo \in {0, MINERAL_DEPOSIT},
          other_energy \in {0, INITIAL_ROBOT_ENERGY} :
          /\ map.cells[p].cell_type # Obstacle
          /\ (robot_type = "Explorer") => (p # <<StationX, StationY>> /\ cargo = 0)
          /\ robots = << [StartRobot(p, robot_type, profile) EXCEPT
                            !.minerals = cargo,
                            !.pending_exploration_updates =
                                IF robot_type = "Explorer"
                                THEN Repeat(<<<<StationX, StationY>>, Empty>>, 30)
                                ELSE <<>>],
                        [NewWithType(StationX, StationY, "Explorer") EXCEPT
                            !.energy = other_energy,
                            !.state = IF other_energy = 0
                                      THEN "AtStation" ELSE "Exploring"] >>
    /\ \E energy \in {INITIAL_ROBOT_ENERGY \div 2, STATION_START_ENERGY + 100} :
          station = [StationWith(energy) EXCEPT
                        !.known_map = KnownMapOf(1, 1, 1, 0, 1)]
    /\ phase = "update"
    /\ idx = 1
    /\ ticks = 0
    /\ ev = NoEvent
    /\ search = NoSearch
    /\ replay = NoSearch

LedgerSpec == LedgerInit /\ [][Next]_vars

-----------------------------------------------------------------------------
(* Claims about the totals of energy and minerals (LedgerSpec) *)

RECURSIVE SumOver(_, _)
SumOver(f, S) ==
    IF S = {} THEN 0
    ELSE LET x == CHOOSE x \in S : TRUE
         IN  f[x] + SumOver(f, S \ {x})

\* what the cells of the given kind hold
CellTotal(m, kind) ==
    SumOver([p \in DOMAIN m.cells |->
                IF m.cells[p].cell_type.kind = kind
                THEN m.cells[p].cell_type.amount ELSE 0],
            DOMAIN m.cells)

TotalEnergy(m, rs, st) ==
    CellTotal(m, "Energy")
        + SumOver([i \in 1 .. Len(rs) |-> rs[i].energy], 1 .. Len(rs))
        + st.energy

TotalMinerals(m, rs, st) ==
    CellTotal(m, "Mineral")
        + SumOver([i \in 1 .. Len(rs) |-> rs[i].minerals], 1 .. Len(rs))
        + st.minerals

\* what the update of the event has spent: 1 for a step, 3 for a teleport
SpentBy(e) ==
    IF e.op = "update"
    THEN (IF e.log.moved THEN 1 ELSE 0) + (IF e.log.teleported THEN 3 ELSE 0)
    ELSE 0

C37_MineralAccounting ==
    [][/\ TotalMinerals(map', robots', station')
             = TotalMinerals(map, robots, station)
                  - (IF ev'.op = "create" /\ ev'.created THEN ROBOT_MINERAL_COST ELSE 0)
       /\ (ev'.op = "create" /\ ev'.created)
             => /\ station.minerals >= ROBOT_MINERAL_COST
                /\ station'.minerals = station.minerals - ROBOT_MINERAL_COST
       /\ station'.minerals >= 0]_vars

\* the station has been given the cargo and the deposit robots[1] took, and
\* has paid for two robots
C37_Witness ==
    /\ ev.op = "create" /\ ev.created
    /\ ticks = 2
    /\ Len(robots) = 4
    /\ CellTotal(map, "Mineral") = 0
    /\ robots[1].minerals = 0
    /\ station.minerals = STATION_START_MINERALS + 2 * MINERAL_DEPOSIT - 2 * ROBOT_MINERAL_COST

\* C39: an update that explores appends one pending update, for the cell the
\* robot stood on, and any other update leaves the pending updates as they
\* are; an Exploring robot with energy explores unless the return policy
\* fires; pending updates are lost only in the station interaction, which
\* takes them all.  An Explorer explores only with at most 30 pending updates,
\* so that it never holds more than 31.
C39_PendingGrowth ==
    /\ [](\A i \in 1 .. Len(robots) :
             robots[i].robot_type = "Explorer"
                => Len(robots[i].pending_exploration_updates) <= 31)
    /\ [][ev'.op = "update"
             => LET r == robots[ev'.robot]
                    before == r.pending_exploration_updates
                    after == robots'[ev'.robot].pending_exploration_updates
                IN  /\ (ev'.log.branch = "explore")
                          <=> (r.energy > 0 /\ r.state = "Exploring"
                                  /\ ~ ShouldReturnToStation(r))
                    /\ (ev'.log.branch = "explore")
                          => /\ Len(after) = Len(before) + 1
                             /\ SubSeq(after, 1, Len(before)) = before
                             /\ after[Len(after)][1] = <<r.x, r.y>>
                             /\ (r.robot_type = "Explorer") => Len(before) <= 30
                    /\ (ev'.log.branch # "explore") => after = before]_vars
    /\ [][\A i \in 1 .. Len(robots) :
             LET before == robots[i].pending_exploration_updates
                 after == robots'[i].pending_exploration_updates
             IN  (Len(after) < Len(before) \/ SubSeq(after, 1, Len(before)) # before)
                    => /\ ev'.op = "interact" /\ ev'.robot = i
                       /\ robots[i].x = station.x /\ robots[i].y = station.y
                       /\ after = <<>>]_vars

\* the Explorer that had 30 pending updates has explored once more and then,
\* with energy to spare, turned back with 31
C39_Witness ==
    /\ ev.op = "update" /\ ev.robot = 1
    /\ ev.log.branch = "return_fired"
    /\ ticks = 1
    /\ robots[1].robot_type = "Explorer"
    /\ robots[1].energy > 25
    /\ Len(robots[1].pending_exploration_updates) = 31
    /\ robots[1].pending_exploration_updates[31][1] # <<robots[1].x, robots[1].y>>
=============================================================================
